---- MODULE Spec2Model ----
(***************************************************************************)
(* Functional-Cxx: the memoizing lazy Stream (stream.hpp), its cursor,     *)
(* its map transform, and the two generators of the stream example         *)
(* (FibStreamF, ROT13StreamF).                                             *)
(*                                                                         *)
(* The heap of Stream nodes is the sequence `nodes`; a node's identity is  *)
(* its index, and the null std::shared_ptr (Nil) is 0.  Fields that the    *)
(* C++ objects do not have (born, given, invoked, returned, madeIn,        *)
(* mapOf, mapFn, byMap, and the variables origin, advances, seen, fCalls)  *)
(* are instrumentation: they record what the code did and are never read   *)
(* by the modelled code.  The client keeps every reference it obtains, so  *)
(* its operations may name any node of the heap.                           *)
(***************************************************************************)
EXTENDS Integers, Sequences, FiniteSets, TLC

(***************************************************************************)
(* Bounds of the model.                                                    *)
(***************************************************************************)
W == 7                  \* width in bits of the modelled size_t
MaxNodes == 4           \* heap capacity of the general specification
MaxFibNodes == 14       \* heap capacity of the Fibonacci specification
MaxOwnNodes == 6        \* heap capacity of the ownership specification
MaxThreadNodes == 3     \* heap capacity of the threads specification
MaxOuter == 3           \* longest outer range that is flattened
MaxInner == 2           \* longest inner range that is flattened
MaxLoops == 3           \* range-for statements over each(opt)
MaxCalls == 4           \* try_emplace calls with freely chosen keys
MaxKey == 2             \* largest freely chosen key
MaxWeaveNodes == 6      \* heap capacity of the interleaving specification

\* The client program: each generator of the example is started at most
\* once, the heads of CellHeads are consed in this order, one stream is
\* mapped, and the cursors are advanced in any interleaving.
Cursors == {"c1", "c2"}         \* StreamIterator variables of the client
MapCursors == {"c1"}            \* the cursors of the map specification
CellHeads == <<2, 1>>           \* heads the client passes to Cell, in order
Transforms == {"dec", "id"}     \* lambdas the client passes to map
Inputs == {<<83>>}              \* contents of the istringstream ("S")
Indeterminate == {0, 110}       \* values an uninitialized char may hold

VARIABLES
    nodes,      \* the heap: nodes[n] is the Stream object with identity n
    inp,        \* the std::istringstream that ROT13StreamF reads
    location_,  \* StreamIterator::location_ of each cursor
    origin,     \* the reference each cursor was obtained from by begin
    advances,   \* the number of increments of each cursor since begin
    seen,       \* the heads each cursor has dereferenced, in order
    cells,      \* the number of Cell(e, ref) calls of the client so far
    maps,       \* the transforms the client has mapped so far
    roots,      \* the generators the client has started so far
    fCalls,     \* the number of applications of a map transform so far
    cap         \* the heap capacity of the run

\* State of the other parts of the library and of the reference counts; the
\* stream operations above the ownership section leave all of it alone.
VARIABLES
    handle,     \* the std::shared_ptr variables of the client
    uses,       \* the use count of the control block of each node
    consumed    \* the cursors obtained from the consuming std::begin

ownVars == <<handle, uses, consumed>>

VARIABLES
    got         \* what the client last read: a head, and a comparison of cursors

VARIABLES
    fh_,        \* UniqueFunction::fh_ of each UniqueFunction object
    ran,        \* the wrapped functors that have been invoked
    outcome     \* how the last UniqueFunction::operator() call ended

ufVars == <<fh_, ran, outcome>>

VARIABLES
    pc,         \* where each thread stands in Stream::tail
    thr         \* the locals of each thread's call of Stream::tail

thrVars == <<pc, thr>>

VARIABLES
    foo,        \* the range of ranges that is flattened
    outerPos_,  \* FlatIterator::outerPos_: the rest [b, e) of the outer range
    innerPos_,  \* FlatIterator::innerPos_: range k, position j
    bar         \* the elements copied out so far

flatVars == <<foo, outerPos_, innerPos_, bar>>

VARIABLES
    mem,        \* the optionals by address: <<>> is none, <<v>> holds v
    contents_,  \* the address of the optional the range iterates
    pos_,       \* OptionalIterator::pos_
    yielded,    \* the elements the current range-for has produced
    out,        \* std::cout of the optional example
    loops       \* range-for statements started

optVars == <<mem, contents_, pos_, yielded, out, loops>>

VARIABLES
    example,    \* the std::map of the lazy example
    calls,      \* the keys passed to try_emplace so far
    blips       \* the calls in which X was evaluated

lazyVars == <<example, calls, blips>>

VARIABLES
    at,         \* the statement main of the lazy example has reached
    beep,       \* its variable beep: the initializer and the value once set
    raised,     \* the exception in flight
    cout        \* the lines it has printed after the loop

todoVars == <<at, beep, raised, cout>>

VARIABLES
    mode,       \* the lock each thread holds on the slot of its call
    wlocked,    \* the write locks taken so far: <<thread, node>>
    recheck     \* whether a writer inspects the slot again under its lock

lockVars == <<mode, wlocked, recheck>>

VARIABLES
    thrown      \* the nodes on which a tail() has ended in an exception

otherVars == <<todoVars, lockVars, thrown>>

apart == <<ownVars, got, ufVars, thrVars, flatVars, optVars, lazyVars, otherVars>>

Threads == {"t1", "t2"}         \* threads that share the stream

UFs == {"u1", "u2", "u3"}       \* UniqueFunction objects of the client
Functors == {"f", "g"}          \* the functors they are constructed from
NullCall == {"crash", "runs on"}    \* what *fh_ on a null fh_ may do

vars == <<nodes, inp, location_, origin, advances, seen, cells, maps, roots, fCalls, cap, apart>>

Handles == {"h1", "h2"}         \* shared_ptr variables of the client

Nil == 0

Mod == 2 ^ W

(***************************************************************************)
(* Generators: the functors that a tail_ slot can hold inside its          *)
(* UniqueFunction.                                                         *)
(***************************************************************************)
NoGen == [kind |-> "none", a |-> 0, b |-> 0, src |-> 0, viaTail |-> FALSE, f |-> "none"]

\* FibStreamF(a, b)
FibStreamF(a, b) == [NoGen EXCEPT !.kind = "Fib", !.a = a, !.b = b]

\* ROT13StreamF(inp_): inp_ is a reference to the one istringstream
ROT13StreamF == [NoGen EXCEPT !.kind = "ROT13"]

\* MapF(src_, transform_): src_ is [sharedThis]{ return sharedThis; }
\* (viaTail = FALSE) or [src]{ return src->tail(); } (viaTail = TRUE)
MapF(src, viaTail, f) == [NoGen EXCEPT !.kind = "Map", !.src = src, !.viaTail = viaTail, !.f = f]

\* A tail argument of Cell: an existing reference or a generator.
Ref(r) == [isGen |-> FALSE, ref |-> r, gen |-> NoGen]
Thunk(g) == [isGen |-> TRUE, ref |-> Nil, gen |-> g]

\* How a node came to be: the operation in whose extent it was made, and
\* for a node of a mapped stream the source node and the transform.
Made(ctx, mapOf, mapFn) == [ctx |-> ctx, mapOf |-> mapOf, mapFn |-> mapFn]

\* Stream::Stream with the reference it is given dropped.
Stream_DefaultTail(elem, e, t, made) ==
    [elem |-> elem, head_ |-> e,
     which |-> IF t.isGen THEN 1 ELSE 0, ref |-> Nil, gen |-> t.gen,
     invoked |-> 0, returned |-> {},
     madeIn |-> made.ctx, mapOf |-> made.mapOf, mapFn |-> made.mapFn, byMap |-> 0]

(***************************************************************************)
(* Stream::Stream: head_ from e, tail_ from t; which = 0 is the StreamT    *)
(* alternative of the variant, which = 1 the F alternative.                *)
(***************************************************************************)
Stream(elem, e, t, made) ==
    [elem |-> elem, head_ |-> e,
     which |-> IF t.isGen THEN 1 ELSE 0, ref |-> t.ref, gen |-> t.gen,
     invoked |-> 0, returned |-> {},
     madeIn |-> made.ctx, mapOf |-> made.mapOf, mapFn |-> made.mapFn, byMap |-> 0]

\* Stream::Cell (through makeShared): one new node, nothing is invoked.
Cell(st, elem, e, t, made) ==
    LET new == Stream(elem, e, t, made) @@ [born |-> IF t.isGen THEN 1 ELSE 0, given |-> t.ref]
    IN  [st |-> [st EXCEPT !.nodes = Append(st.nodes, new)],
         val |-> Len(st.nodes) + 1]

\* Stream::head
head(st, n) == st.nodes[n].head_

\* emplace that constructs over the whole node instead of over its tail_.
emplace_WholeNode(nd, r) == [nd EXCEPT !.which = 0, !.ref = r, !.gen = NoGen, !.head_ = 0]

\* detail::emplace(tail_, r): the variant is destroyed and a new one is
\* constructed from the StreamT r in the same storage.
emplace(nd, r) == [nd EXCEPT !.which = 0, !.ref = r, !.gen = NoGen]

\* The lambdas passed to map; size_t arithmetic wraps.
Apply(f, n) == IF f = "dec" THEN (n - 1 + Mod) % Mod ELSE n

\* The ROT13 of one char (ASCII codes).
rot13(i) ==
    IF i >= 65 /\ i <= 90 THEN (((i - 65) + 13) % 26) + 65
    ELSE IF i >= 97 /\ i <= 122 THEN (((i - 97) + 13) % 26) + 97
    ELSE i

\* FibStreamF::operator() with the arguments of the next generator swapped.
InvokeFib_Swapped(st, g, ctx) ==
    Cell(st, "size_t", g.a, Thunk(FibStreamF((g.a + g.b) % Mod, g.b)), Made(ctx, 0, "none"))

\* FibStreamF::operator()
InvokeFib(st, g, ctx) ==
    Cell(st, "size_t", g.a, Thunk(FibStreamF(g.b, (g.a + g.b) % Mod)), Made(ctx, 0, "none"))

\* ROT13StreamF::operator(): at the end of the input the extraction fails,
\* sets eofbit and leaves i uninitialized.
InvokeROT13(st, g, ctx) ==
    IF st.inp.eof
    THEN [st |-> st, val |-> Nil]
    ELSE LET avail == st.inp.pos < Len(st.inp.data)
             i == IF avail THEN st.inp.data[st.inp.pos + 1] ELSE st.junk
             in2 == IF avail THEN [st.inp EXCEPT !.pos = @ + 1]
                             ELSE [st.inp EXCEPT !.eof = TRUE]
         IN  Cell([st EXCEPT !.inp = in2], "char", rot13(i), Thunk(ROT13StreamF), Made(ctx, 0, "none"))

RECURSIVE tail(_, _), Invoke(_, _, _), InvokeMap(_, _, _)

\* tail without memoization: the generator is called on every call and its
\* result is returned without being stored.
tail_NoMemo(st, n) ==
    IF st.nodes[n].which = 1
    THEN LET r == Invoke(st, st.nodes[n].gen, "tail")
         IN  [st |-> [r.st EXCEPT !.nodes[n].invoked = @ + 1,
                                  !.nodes[n].returned = @ \cup {r.val}],
              val |-> r.val]
    ELSE LET val == st.nodes[n].ref
         IN  [st |-> [st EXCEPT !.nodes[n].returned = @ \cup {val}], val |-> val]

\* tail that stores the result but keeps the generator and calls it again on
\* every later call.
tail_Reforce(st, n) ==
    IF st.nodes[n].gen.kind # "none"
    THEN LET r == Invoke(st, st.nodes[n].gen, "tail")
         IN  [st |-> [r.st EXCEPT !.nodes[n].which = 0,
                                  !.nodes[n].ref = r.val,
                                  !.nodes[n].invoked = @ + 1,
                                  !.nodes[n].returned = @ \cup {r.val}],
              val |-> r.val]
    ELSE LET val == st.nodes[n].ref
         IN  [st |-> [st EXCEPT !.nodes[n].returned = @ \cup {val}], val |-> val]

\* tail that takes a null reference for "not yet forced": a generator that
\* returned Nil stays in the slot.
tail_NilPending(st, n) ==
    IF st.nodes[n].which = 1
    THEN LET r == Invoke(st, st.nodes[n].gen, "tail")
             forced == IF r.val = Nil THEN r.st.nodes[n] ELSE emplace(r.st.nodes[n], r.val)
         IN  [st |-> [r.st EXCEPT !.nodes[n] = [forced EXCEPT !.invoked = @ + 1,
                                                              !.returned = @ \cup {r.val}]],
              val |-> r.val]
    ELSE LET val == st.nodes[n].ref
         IN  [st |-> [st EXCEPT !.nodes[n].returned = @ \cup {val}], val |-> val]

(***************************************************************************)
(* Stream::tail: force the thunk or read the memoized result.              *)
(***************************************************************************)
tail(st, n) ==
    IF st.nodes[n].which = 1
    THEN LET r == Invoke(st, st.nodes[n].gen, "tail")
             forced == [emplace(r.st.nodes[n], r.val) EXCEPT !.invoked = @ + 1]
             val == forced.ref
         IN  [st |-> [r.st EXCEPT !.nodes[n] = [forced EXCEPT !.returned = @ \cup {val}]],
              val |-> val]
    ELSE LET val == st.nodes[n].ref
         IN  [st |-> [st EXCEPT !.nodes[n].returned = @ \cup {val}], val |-> val]

\* MapF::operator() that forces the tail of the source node as soon as it
\* has made the cell for it (one element of look-ahead).
InvokeMap_LookAhead(st, g, ctx) ==
    LET s == IF g.viaTail
             THEN tail([st EXCEPT !.nodes[g.src].byMap = @ + 1], g.src)
             ELSE [st |-> st, val |-> g.src]
        src == s.val
    IN  IF src # Nil
        THEN LET ahead == tail([s.st EXCEPT !.nodes[src].byMap = @ + 1], src)
             IN  Cell([ahead.st EXCEPT !.fCalls = @ + 1], "size_t",
                      Apply(g.f, head(ahead.st, src)),
                      Thunk(MapF(src, TRUE, g.f)), Made(ctx, src, g.f))
        ELSE [st |-> s.st, val |-> Nil]

\* MapF::operator() that transforms the head of the node its closure
\* captured instead of the head of the node the closure returned.
InvokeMap_StaleHead(st, g, ctx) ==
    LET s == IF g.viaTail
             THEN tail([st EXCEPT !.nodes[g.src].byMap = @ + 1], g.src)
             ELSE [st |-> st, val |-> g.src]
        src == s.val
    IN  IF src # Nil
        THEN Cell([s.st EXCEPT !.fCalls = @ + 1], "size_t", Apply(g.f, head(s.st, g.src)),
                  Thunk(MapF(src, TRUE, g.f)), Made(ctx, src, g.f))
        ELSE [st |-> s.st, val |-> Nil]

\* MapF::operator() whose closure runs the generator of the source node for
\* itself and does not store the result in the source node.
InvokeMap_OwnSource(st, g, ctx) ==
    LET s == IF g.viaTail
             THEN tail_NoMemo([st EXCEPT !.nodes[g.src].byMap = @ + 1], g.src)
             ELSE [st |-> st, val |-> g.src]
        src == s.val
    IN  IF src # Nil
        THEN Cell([s.st EXCEPT !.fCalls = @ + 1], "size_t", Apply(g.f, head(s.st, src)),
                  Thunk(MapF(src, TRUE, g.f)), Made(ctx, src, g.f))
        ELSE [st |-> s.st, val |-> Nil]

\* MapF::operator()
InvokeMap(st, g, ctx) ==
    LET s == IF g.viaTail
             THEN tail([st EXCEPT !.nodes[g.src].byMap = @ + 1], g.src)
             ELSE [st |-> st, val |-> g.src]
        src == s.val
    IN  IF src # Nil
        THEN Cell([s.st EXCEPT !.fCalls = @ + 1], "size_t", Apply(g.f, head(s.st, src)),
                  Thunk(MapF(src, TRUE, g.f)), Made(ctx, src, g.f))
        ELSE [st |-> s.st, val |-> Nil]

\* UniqueFunction::operator(): the call of the wrapped functor.
Invoke(st, g, ctx) ==
    CASE g.kind = "Fib" -> InvokeFib(st, g, ctx)
      [] g.kind = "ROT13" -> InvokeROT13(st, g, ctx)
      [] g.kind = "Map" -> InvokeMap(st, g, ctx)

\* Stream::map whose first closure returns the tail of this node.
map_ViaTail(st, n, f) == InvokeMap(st, MapF(n, TRUE, f), "map")

\* Stream::map that forces the tail of this node once the first node of the
\* result is built.
map_ForcesSource(st, n, f) ==
    LET r == InvokeMap(st, MapF(n, FALSE, f), "map")
    IN  [st |-> tail(r.st, n).st, val |-> r.val]

\* Stream::map: builds the first MapF around shared_from_this() and calls it.
map(st, n, f) == InvokeMap(st, MapF(n, FALSE, f), "map")

\* std::begin without the test for the empty reference.
begin_Unchecked(s) == IF s # Nil THEN s ELSE Len(nodes)

\* Stream::begin and std::begin: s ? s->begin() : end(s)
end == Nil
begin(s) == IF s # Nil THEN s ELSE end

\* increment that takes a pending tail for the end of the stream.
increment_NoForce(st, loc) ==
    IF st.nodes[loc].which = 1 THEN [st |-> st, val |-> Nil] ELSE tail(st, loc)

\* StreamIterator::increment
increment(st, loc) == tail(st, loc)

\* equal that compares the elements the two cursors stand at.
equal_ByValue(c, d) ==
    IF location_[c] = Nil \/ location_[d] = Nil THEN location_[c] = location_[d]
    ELSE nodes[location_[c]].head_ = nodes[location_[d]].head_

\* StreamIterator::dereference and StreamIterator::equal
dereference(c) == nodes[location_[c]].head_
equal(c, d) == location_[c] = location_[d]

(***************************************************************************)
(* The program state as the operators above thread it.                     *)
(***************************************************************************)
St(u) == [nodes |-> nodes, inp |-> inp, fCalls |-> fCalls, junk |-> u]

\* The values the char i of ROT13StreamF::operator() may be left with: it is
\* read uninitialized only when the next extraction fails.
Junk == IF ~inp.eof /\ inp.pos = Len(inp.data) THEN Indeterminate ELSE {0}

Fits(r) == Len(r.st.nodes) <= cap

Commit(r) == nodes' = r.st.nodes /\ inp' = r.st.inp /\ fCalls' = r.st.fCalls

Refs == 1 .. Len(nodes)

(***************************************************************************)
(* Client operations.                                                      *)
(***************************************************************************)
\* FibStreamF::first()
First ==
    LET r == InvokeFib(St(0), FibStreamF(0, 1), "first") IN
    /\ "Fib" \notin roots
    /\ Fits(r)
    /\ Commit(r)
    /\ roots' = roots \cup {"Fib"}
    /\ UNCHANGED <<location_, origin, advances, seen, cells, maps, cap, apart>>

\* ROT13StreamF(rot13)()
Rot ==
    \E u \in Junk :
        LET r == InvokeROT13(St(u), ROT13StreamF, "rot") IN
        /\ "ROT13" \notin roots
        /\ Fits(r)
        /\ Commit(r)
        /\ roots' = roots \cup {"ROT13"}
        /\ UNCHANGED <<location_, origin, advances, seen, cells, maps, cap, apart>>

\* Stream<size_t>::Cell(e, t) with t Nil or an existing reference
CellRef(t) ==
    LET e == CellHeads[cells + 1]
        r == Cell(St(0), "size_t", e, Ref(t), Made("Cell", 0, "none")) IN
    /\ cells < Len(CellHeads)
    /\ t # Nil => nodes[t].elem = "size_t"
    /\ Fits(r)
    /\ Commit(r)
    /\ cells' = cells + 1
    /\ UNCHANGED <<location_, origin, advances, seen, maps, roots, cap, apart>>

\* n->tail()
TailCall(n) ==
    \E u \in Junk :
        LET r == tail(St(u), n) IN
        /\ Fits(r)
        /\ Commit(r)
        /\ UNCHANGED <<location_, origin, advances, seen, cells, maps, roots, cap, apart>>

\* n->map(f)
Map(n, f) ==
    LET r == map(St(0), n, f) IN
    /\ maps = {}
    /\ Fits(r)
    /\ Commit(r)
    /\ maps' = maps \cup {f}
    /\ UNCHANGED <<location_, origin, advances, seen, cells, roots, cap, apart>>

\* c = std::begin(s)
Begin(c, s) ==
    /\ location_' = [location_ EXCEPT ![c] = begin(s)]
    /\ origin' = [origin EXCEPT ![c] = s]
    /\ advances' = [advances EXCEPT ![c] = 0]
    /\ seen' = [seen EXCEPT ![c] = <<>>]
    /\ UNCHANGED <<nodes, inp, cells, maps, roots, fCalls, cap, apart>>

\* One round of a consuming loop: x = *c; ++c
Increment(c) ==
    \E u \in Junk :
        LET r == increment(St(u), location_[c]) IN
        /\ location_[c] # end
        /\ Fits(r)
        /\ Commit(r)
        /\ seen' = [seen EXCEPT ![c] = Append(@, dereference(c))]
        /\ location_' = [location_ EXCEPT ![c] = r.val]
        /\ advances' = [advances EXCEPT ![c] = @ + 1]
        /\ UNCHANGED <<origin, cells, maps, roots, cap, apart>>

\* Nothing of the other parts exists yet.
NoOwn == handle = [h \in Handles |-> Nil] /\ uses = <<>> /\ consumed = {}

NoUF == fh_ = [u \in UFs |-> "none"] /\ ran = {} /\ outcome = "none"

NoThreads ==
    /\ pc = [t \in Threads |-> "idle"]
    /\ thr = [t \in Threads |-> [n |-> Nil, gen |-> NoGen, r |-> Nil, val |-> Nil]]

\* InnerIterator {}: a value-initialized iterator
Singular == [k |-> 0, j |-> 0]

NoFlat == foo = <<>> /\ outerPos_ = [b |-> 1, e |-> 1] /\ innerPos_ = Singular /\ bar = <<>>

Addrs == {"t", "contents_", "typedNone_"}

NoOpt ==
    /\ mem = [a \in Addrs |-> <<>>]
    /\ contents_ = "t"
    /\ pos_ = "typedNone_"
    /\ yielded = <<>>
    /\ out = <<>>
    /\ loops = 0

NoLazy == example = <<>> /\ calls = <<>> /\ blips = <<>>

NoTodo ==
    /\ at = "loop"
    /\ beep = [init |-> "none", set |-> FALSE, value |-> 0]
    /\ raised = "none"
    /\ cout = <<>>

NoLock == mode = [t \in Threads |-> "none"] /\ wlocked = {} /\ recheck = TRUE

NoOther == NoTodo /\ NoLock /\ thrown = {}

Apart0 ==
    /\ NoOwn /\ got = [head |-> 0, same |-> TRUE] /\ NoUF /\ NoThreads /\ NoFlat
    /\ NoOpt /\ NoLazy /\ NoOther

InitWith(k) ==
    /\ nodes = <<>>
    /\ inp \in {[data |-> d, pos |-> 0, eof |-> FALSE] : d \in Inputs}
    /\ location_ = [c \in Cursors |-> end]
    /\ origin = [c \in Cursors |-> Nil]
    /\ advances = [c \in Cursors |-> 0]
    /\ seen = [c \in Cursors |-> <<>>]
    /\ cells = 0
    /\ maps = {}
    /\ roots = {}
    /\ fCalls = 0
    /\ cap = k
    /\ Apart0

Init == InitWith(MaxNodes)

\* The client builds streams and traverses them.
Next ==
    \/ First
    \/ Rot
    \/ \E t \in Refs \cup {Nil} : CellRef(t)
    \/ \E n \in Refs : TailCall(n)
    \/ \E c \in Cursors, s \in Refs \cup {Nil} : Begin(c, s)
    \/ \E c \in Cursors : Increment(c)

Spec == Init /\ [][Next]_vars

\* The client also maps streams.
NextMap ==
    \/ First
    \/ Rot
    \/ \E t \in Refs \cup {Nil} : CellRef(t)
    \/ \E n \in Refs, f \in Transforms : Map(n, f)
    \/ \E n \in Refs : TailCall(n)
    \/ \E c \in MapCursors, s \in Refs \cup {Nil} : Begin(c, s)
    \/ \E c \in MapCursors : Increment(c)

SpecMap == Init /\ [][NextMap]_vars

\* The Fibonacci stream of the example, traversed by the cursors.
InitFib == InitWith(MaxFibNodes)

NextFib ==
    \/ First
    \/ \E c \in Cursors, s \in Refs \cup {Nil} : Begin(c, s)
    \/ \E c \in Cursors : Increment(c)

SpecFib == InitFib /\ [][NextFib]_vars

(***************************************************************************)
(* The nodes reached from n through materialized tail slots, n first; the  *)
(* last one has a pending tail or a tail of Nil.                           *)
(***************************************************************************)
RECURSIVE ChainFrom(_)
ChainFrom(n) ==
    IF n = Nil THEN <<>>
    ELSE IF nodes[n].which = 1 THEN <<n>>
    ELSE <<n>> \o ChainFrom(nodes[n].ref)

\* The chain from n ends in a materialized Nil: it is a finite stream.
Complete(n) == n # Nil /\ nodes[ChainFrom(n)[Len(ChainFrom(n))]].which = 0

Heads(ch) == [i \in 1 .. Len(ch) |-> nodes[ch[i]].head_]

\* Cursor c has gone past node n: it called tail() of n.
Passed(c, n) ==
    /\ origin[c] # Nil
    /\ \E i \in 1 .. advances[c] :
           i <= Len(ChainFrom(origin[c])) /\ ChainFrom(origin[c])[i] = n

(***************************************************************************)
(* C1: a node created with a generator has its generator invoked exactly   *)
(* once over any number of tail() calls, on the first of them, and every   *)
(* call returns the same reference, the one the slot then holds.           *)
(***************************************************************************)
C1_Memoized ==
    \A n \in Refs :
        nodes[n].born = 1 =>
            /\ nodes[n].invoked <= 1
            /\ (nodes[n].invoked = 1) <=> (nodes[n].returned # {})
            /\ Cardinality(nodes[n].returned) <= 1
            /\ nodes[n].returned # {} =>
                   nodes[n].which = 0 /\ nodes[n].returned = {nodes[n].ref}

\* Two cursors have both gone past a node that was created with a generator.
C1_Witness ==
    \E n \in Refs :
        /\ nodes[n].born = 1 /\ nodes[n].invoked = 1
        /\ \A c \in Cursors : Passed(c, n)

(***************************************************************************)
(* C2: a tail slot is either pending (it holds a generator and no          *)
(* reference) or materialized (it holds a reference and no generator); a   *)
(* step leaves a slot as it is or takes it from pending to materialized,   *)
(* and a materialized slot keeps its reference.                            *)
(***************************************************************************)
SlotShape(nd) ==
    \/ nd.which = 1 /\ nd.gen.kind \in {"Fib", "ROT13", "Map"} /\ nd.ref = Nil
    \/ nd.which = 0 /\ nd.gen = NoGen

SlotStep(old, new) ==
    \/ old.which = 1 /\ new.which = 1 /\ new.gen = old.gen
    \/ old.which = 1 /\ new.which = 0
    \/ old.which = 0 /\ new.which = 0 /\ new.ref = old.ref

C2_SlotStates ==
    /\ [](\A n \in Refs : SlotShape(nodes[n]))
    /\ [][\A n \in Refs : SlotStep(nodes[n], nodes'[n])]_vars

\* A slot has gone from pending to materialized and tail() was called on it
\* again by a second cursor.
C2_Witness ==
    \E n \in Refs :
        /\ nodes[n].born = 1 /\ nodes[n].which = 0 /\ nodes[n].ref # Nil
        /\ \A c \in Cursors : Passed(c, n)

(***************************************************************************)
(* C3: two cursors begun at the same node that have advanced the same      *)
(* number of steps are at the same node and have read the same heads, and  *)
(* no generator on their way was invoked more than once.                   *)
(***************************************************************************)
C3_SharedCursors ==
    \A c, d \in Cursors :
        (origin[c] = origin[d] /\ advances[c] = advances[d]) =>
            /\ equal(c, d)
            /\ seen[c] = seen[d]
            /\ \A n \in Refs : Passed(c, n) => nodes[n].invoked <= 1

\* Two cursors begun at the same generated node have both advanced twice.
C3_Witness ==
    \E c, d \in Cursors :
        /\ c # d /\ origin[c] = origin[d] /\ origin[c] # Nil
        /\ nodes[origin[c]].born = 1
        /\ advances[c] = 2 /\ advances[d] = 2
        /\ location_[c] # end

(***************************************************************************)
(* C4: Cell makes one node with the head it is given and invokes nothing.  *)
(* A node given a generator stays pending, its generator not called, until *)
(* tail() is first called on it; a node given a reference r (Nil as well)  *)
(* holds r, tail() returns r, and no generator is ever invoked for it.     *)
(***************************************************************************)
CellMakesOneNode ==
    cells' # cells =>
        /\ Len(nodes') = Len(nodes) + 1
        /\ \A n \in Refs : nodes'[n] = nodes[n]
        /\ nodes'[Len(nodes')].head_ = CellHeads[cells']
        /\ fCalls' = fCalls /\ inp' = inp

NewNodesUntouched ==
    \A n \in (Len(nodes) + 1) .. Len(nodes') :
        /\ nodes'[n].invoked = 0 /\ nodes'[n].returned = {}
        /\ nodes'[n].which = nodes'[n].born

C4_Cell ==
    /\ [](\A n \in Refs :
            /\ nodes[n].born = 0 =>
                   /\ nodes[n].invoked = 0 /\ nodes[n].which = 0
                   /\ nodes[n].ref = nodes[n].given
                   /\ nodes[n].returned \subseteq {nodes[n].given}
            /\ (nodes[n].born = 1 /\ nodes[n].returned = {}) =>
                   nodes[n].which = 1 /\ nodes[n].invoked = 0)
    /\ [][CellMakesOneNode /\ NewNodesUntouched]_vars

\* tail() was called on Cell(1, r) for a node r and on Cell(2, Nil()).
C4_Witness ==
    \E n, k \in Refs :
        /\ nodes[n].born = 0 /\ nodes[n].given = k /\ nodes[n].returned = {k}
        /\ nodes[k].born = 0 /\ nodes[k].given = Nil /\ nodes[k].returned = {Nil}

(***************************************************************************)
(* C5: when the generator of a node returned Nil, the slot is materialized *)
(* and holds Nil, the generator was invoked once, and every tail() call on *)
(* the node has returned Nil.                                              *)
(***************************************************************************)
C5_NilTail ==
    \A n \in Refs :
        /\ (nodes[n].born = 1 /\ Nil \in nodes[n].returned) =>
               /\ nodes[n].which = 0 /\ nodes[n].ref = Nil
               /\ nodes[n].invoked = 1
               /\ nodes[n].returned = {Nil}
        /\ (nodes[n].born = 1 /\ nodes[n].which = 0 /\ nodes[n].ref = Nil) =>
               nodes[n].invoked = 1

\* The ROT13 stream has ended and both cursors have gone past its last node.
C5_Witness ==
    \E n \in Refs :
        /\ nodes[n].born = 1 /\ nodes[n].gen = NoGen /\ nodes[n].ref = Nil
        /\ nodes[n].returned = {Nil}
        /\ \A c \in Cursors : Passed(c, n) /\ location_[c] = end

(***************************************************************************)
(* C6: a cursor begun at a node has read the heads of the chain from that  *)
(* node in chain order, one per advance, and stands at the node that many  *)
(* steps down the chain; it equals end() exactly when it has advanced as   *)
(* many times as the finite chain has nodes.                               *)
(***************************************************************************)
C6_Iteration ==
    \A c \in Cursors :
        origin[c] # Nil =>
            LET ch == ChainFrom(origin[c])
                k == advances[c]
            IN  /\ k <= Len(ch)
                /\ seen[c] = SubSeq(Heads(ch), 1, k)
                /\ location_[c] = (IF k < Len(ch) THEN ch[k + 1] ELSE end)
                /\ (location_[c] = end) <=> (Complete(origin[c]) /\ k = Len(ch))

\* A cursor has iterated Cell(1, Cell(2, Nil())) as [1, 2] and equals end().
C6_Witness ==
    \E c \in Cursors :
        /\ origin[c] # Nil
        /\ \A i \in 1 .. Len(ChainFrom(origin[c])) : nodes[ChainFrom(origin[c])[i]].born = 0
        /\ seen[c] = <<1, 2>>
        /\ location_[c] = end

(***************************************************************************)
(* C7: the k-th element of the Fibonacci stream is the k-th Fibonacci      *)
(* number modulo 2^W: the first ten elements are 0 1 1 2 3 5 8 13 21 34,   *)
(* every element whose Fibonacci number is below 2^W is exact, and the     *)
(* pending generator of the k-th node holds the next two numbers modulo    *)
(* 2^W, so its look-ahead b wraps one element before the heads do.         *)
(***************************************************************************)
RECURSIVE FibFrom(_, _, _)
FibFrom(a, b, k) == IF k = 0 THEN a ELSE FibFrom(b, a + b, k - 1)

\* The k-th Fibonacci number, in unbounded arithmetic.
Fib(k) == FibFrom(0, 1, k)

FirstTen == <<0, 1, 1, 2, 3, 5, 8, 13, 21, 34>>

FibRoots == {n \in Refs : nodes[n].madeIn = "first"}

\* The position of node n in the chain ch (0 if it is not in it).
IndexIn(ch, n) == IF \E i \in 1 .. Len(ch) : ch[i] = n
                  THEN CHOOSE i \in 1 .. Len(ch) : ch[i] = n ELSE 0

C7_Fibonacci ==
    \A r \in FibRoots :
        LET ch == ChainFrom(r) IN
        /\ \A i \in 1 .. Len(ch) :
              /\ nodes[ch[i]].head_ = Fib(i - 1) % Mod
              /\ Fib(i - 1) < Mod => nodes[ch[i]].head_ = Fib(i - 1)
              /\ nodes[ch[i]].which = 1 =>
                     nodes[ch[i]].gen = FibStreamF(Fib(i) % Mod, Fib(i + 1) % Mod)
        /\ \A c \in Cursors :
              IndexIn(ch, origin[c]) # 0 =>
                  /\ \A i \in 1 .. Len(seen[c]) :
                         seen[c][i] = Fib(IndexIn(ch, origin[c]) + i - 2) % Mod
                  /\ (origin[c] = r /\ Len(seen[c]) >= 10) => SubSeq(seen[c], 1, 10) = FirstTen

\* A cursor has read the first ten elements and more from the start, up to a
\* node whose head and next element are exact while the look-ahead b of its
\* pending generator has wrapped.
C7_Witness ==
    \E c \in Cursors :
        /\ origin[c] \in FibRoots
        /\ Len(seen[c]) >= 10
        /\ location_[c] # end
        /\ nodes[location_[c]].which = 1
        /\ nodes[location_[c]].head_ = Fib(advances[c])
        /\ nodes[location_[c]].gen.a = Fib(advances[c] + 1)
        /\ nodes[location_[c]].gen.b # Fib(advances[c] + 2)

(***************************************************************************)
(* The nodes of mapped streams, and the first node of each.                *)
(***************************************************************************)
Mapped == {m \in Refs : nodes[m].mapOf # Nil}
MapRoots == {m \in Mapped : nodes[m].madeIn = "map"}

\* The number of materialized tail slots along a chain.
Forced(ch) == Cardinality({i \in 1 .. Len(ch) : nodes[ch[i]].which = 0})

(***************************************************************************)
(* C8: map forces the source one element per element of the result.  The   *)
(* mapped nodes are made from the source nodes in chain order, one each;   *)
(* the closures of map have called tail() on a source node once for every  *)
(* mapped node over it whose tail is materialized, and not otherwise; and  *)
(* the step that forces the tail of a mapped node calls tail() on its      *)
(* source node and touches no other slot.                                  *)
(***************************************************************************)
MapForcesOne ==
    \A m \in Mapped :
        (nodes[m].which = 1 /\ nodes'[m].which = 0) =>
            LET s == nodes[m].mapOf IN
            /\ nodes'[s].which = 0
            /\ nodes'[s].byMap = nodes[s].byMap + 1
            /\ \A x \in Refs \ {m, s} : nodes'[x] = nodes[x]
            /\ Len(nodes') <= Len(nodes) + 2

C8_MapLaziness ==
    /\ [](/\ \A s \in Refs :
                nodes[s].byMap =
                    Cardinality({m \in Mapped : nodes[m].mapOf = s /\ nodes[m].which = 0})
          /\ \A m \in Mapped :
                nodes[m].which = 1 => nodes[m].gen = MapF(nodes[m].mapOf, TRUE, nodes[m].mapFn)
          /\ \A m \in MapRoots :
                LET cm == ChainFrom(m)
                    cs == ChainFrom(nodes[m].mapOf)
                IN  /\ Len(cm) <= Len(cs)
                    /\ \A i \in 1 .. Len(cm) : nodes[cm[i]].mapOf = cs[i]
                    /\ Forced(cm) <= Forced(cs)
                    /\ Forced(cm) = Cardinality({i \in 1 .. Len(cs) : nodes[cs[i]].byMap = 1}))
    /\ [][MapForcesOne]_vars

\* Two elements of a mapped stream are forced over a source that nothing
\* else has forced: two source nodes exist and the second is still pending.
C8_Witness ==
    \E m \in MapRoots :
        /\ Len(ChainFrom(m)) = 2
        /\ nodes[nodes[m].mapOf].born = 1
        /\ Len(ChainFrom(nodes[m].mapOf)) = 2
        /\ Forced(ChainFrom(nodes[m].mapOf)) = 1

(***************************************************************************)
(* C9: the i-th element of map(s, f) is f of the i-th element of s, the    *)
(* mapped stream ends where s ends, and with the identity the heads are    *)
(* those of s.                                                             *)
(***************************************************************************)
C9_MapValues ==
    \A m \in MapRoots :
        LET f == nodes[m].mapFn
            cm == ChainFrom(m)
            cs == ChainFrom(nodes[m].mapOf)
        IN  /\ Len(cm) <= Len(cs)
            /\ \A i \in 1 .. Len(cm) : nodes[cm[i]].head_ = Apply(f, nodes[cs[i]].head_)
            /\ Complete(m) => (Complete(nodes[m].mapOf) /\ Len(cm) = Len(cs))
            /\ f = "id" => Heads(cm) = SubSeq(Heads(cs), 1, Len(cm))

\* A finite stream of two elements has been mapped with n - 1 to its end.
C9_Witness ==
    \E m \in MapRoots :
        /\ nodes[m].mapFn = "dec"
        /\ Complete(m)
        /\ Len(ChainFrom(m)) = 2
        /\ Heads(ChainFrom(m)) # Heads(ChainFrom(nodes[m].mapOf))

(***************************************************************************)
(* C10 as claimed: the call of map applies the transform to nothing.       *)
(***************************************************************************)
C10_MapCallAppliesNothing == [][maps' # maps => fCalls' = fCalls]_vars

(***************************************************************************)
(* C10 as amended: the call of map applies the transform once, to the head *)
(* of the node it is called on, and forces nothing; after that the         *)
(* transform is applied once in each step that forces the tail of a mapped *)
(* node to a further node, to the head of that source node, and in no      *)
(* other step.                                                             *)
(***************************************************************************)
NewlyForced == {m \in Mapped : nodes[m].which = 1 /\ nodes'[m].which = 0 /\ nodes'[m].ref # Nil}

C10_MapAppliesOnDemand ==
    /\ [](fCalls = Cardinality(Mapped))
    /\ [][/\ maps' # maps =>
               /\ fCalls' = fCalls + 1
               /\ Len(nodes') = Len(nodes) + 1
               /\ \A n \in Refs : nodes'[n] = nodes[n]
               /\ nodes'[Len(nodes')].madeIn = "map"
               /\ nodes'[Len(nodes')].which = 1
          /\ maps' = maps =>
               /\ fCalls' = fCalls + Cardinality(NewlyForced)
               /\ \A m \in NewlyForced :
                      /\ nodes'[nodes'[m].ref].madeIn = "tail"
                      /\ nodes'[nodes'[m].ref].mapOf = nodes'[nodes[m].mapOf].ref]_vars

\* map has been called on a stream and a further element of the result has
\* been forced.
C10_Witness ==
    \E m \in MapRoots :
        /\ nodes[m].which = 0 /\ nodes[m].ref # Nil
        /\ fCalls = 2

(***************************************************************************)
(* Ownership.  Every node is held through std::shared_ptr: by variables of *)
(* the client (handle), by cursors (location_), by the StreamT alternative *)
(* of the tail_ of another node, and by the closure of a MapF inside the F *)
(* alternative.  uses[n] is the use count of node n; at zero the node is   *)
(* destroyed, and it stays in `nodes` as freed storage.                    *)
(***************************************************************************)
\* What the tail_ of a node owns.
Held(nd) ==
    IF nd.which = 0 THEN nd.ref
    ELSE IF nd.gen.kind = "Map" THEN nd.gen.src ELSE Nil

\* Copying a std::shared_ptr.
Acquire(u, n) == IF n = Nil THEN u ELSE [u EXCEPT ![n] = @ + 1]

RECURSIVE Release(_, _, _), Release_NoCascade(_, _, _)

\* A destructor that frees the node without destroying its tail_.
Release_NoCascade(u, ns, n) ==
    IF n = Nil \/ u[n] = 0 THEN u ELSE [u EXCEPT ![n] = @ - 1]

\* Destroying a std::shared_ptr: the last owner destroys the Stream, and
\* with it the tail_ of the Stream and what that owns.
Release(u, ns, n) ==
    IF n = Nil \/ u[n] = 0 THEN u
    ELSE IF u[n] > 1 THEN [u EXCEPT ![n] = @ - 1]
    ELSE Release([u EXCEPT ![n] = 0], ns, Held(ns[n]))

RECURSIVE AcquireAll(_, _), ReleaseAll(_, _, _)
AcquireAll(u, S) ==
    IF S = {} THEN u
    ELSE LET m == CHOOSE x \in S : TRUE IN AcquireAll(Acquire(u, m[2]), S \ {m})

ReleaseAll(u, ns, S) ==
    IF S = {} THEN u
    ELSE LET m == CHOOSE x \in S : TRUE IN ReleaseAll(Release(u, ns, m[2]), ns, S \ {m})

\* The use counts when emplace leaves the functor of a materialized slot
\* undestroyed: the closure of its MapF keeps its reference.
Settle_KeepsClosure(u, old, new) ==
    LET made == (Len(old) + 1) .. Len(new)
        captured == {<<m, new[m].gen.src>> : m \in {x \in made : new[x].gen.kind = "Map"}}
        u1 == [n \in 1 .. Len(new) |-> IF n <= Len(old) THEN u[n] ELSE 1]
    IN  AcquireAll(u1, captured)

(***************************************************************************)
(* The use counts after a call into the stream code that took the heap     *)
(* from old to new: std::make_shared gives each new node one owner (the    *)
(* slot or the variable that receives it), the closure [src] of each new   *)
(* MapF copies src, and emplace destroys the functor of each slot it       *)
(* materializes, after the functor has run.                                *)
(***************************************************************************)
Settle(u, old, new) ==
    LET made == (Len(old) + 1) .. Len(new)
        captured == {<<m, new[m].gen.src>> : m \in {x \in made : new[x].gen.kind = "Map"}}
        dropped == {<<m, old[m].gen.src>> :
                       m \in {x \in 1 .. Len(old) : /\ old[x].which = 1 /\ new[x].which = 0
                                                    /\ old[x].gen.kind = "Map"}}
        u1 == [n \in 1 .. Len(new) |-> IF n <= Len(old) THEN u[n] ELSE 1]
    IN  ReleaseAll(AcquireAll(u1, captured), new, dropped)

\* std::shared_ptr copy assignment: the new value is copied, then the old
\* one is dropped.
Reseat(u, ns, old, new) == Release(Acquire(u, new), ns, old)

\* A consuming std::begin whose argument keeps its reference.
Consumed_Kept(s) == s

\* std::begin(StreamT &&consume): what is left in the argument.
Consumed(s) == Nil

\* Everything outside the streams and their ownership stays as it is.
OnlyOwn == UNCHANGED <<seen, cells, cap, got, ufVars, thrVars, flatVars, optVars, lazyVars, otherVars>>

\* h = FibStreamF::first()
OwnFirst(h) ==
    LET r == InvokeFib(St(0), FibStreamF(0, 1), "first") IN
    /\ "Fib" \notin roots
    /\ Fits(r)
    /\ Commit(r)
    /\ roots' = roots \cup {"Fib"}
    /\ handle' = [handle EXCEPT ![h] = r.val]
    /\ uses' = Release(Settle(uses, nodes, r.st.nodes), r.st.nodes, handle[h])
    /\ UNCHANGED <<location_, origin, advances, maps, consumed>>
    /\ OnlyOwn

\* h = ROT13StreamF(rot13)()
OwnRot(h) ==
    \E u \in Junk :
        LET r == InvokeROT13(St(u), ROT13StreamF, "rot") IN
        /\ "ROT13" \notin roots
        /\ Fits(r)
        /\ Commit(r)
        /\ roots' = roots \cup {"ROT13"}
        /\ handle' = [handle EXCEPT ![h] = r.val]
        /\ uses' = Release(Settle(uses, nodes, r.st.nodes), r.st.nodes, handle[h])
        /\ UNCHANGED <<location_, origin, advances, maps, consumed>>
        /\ OnlyOwn

\* g = h->map(f)
OwnMap(h, g, f) ==
    LET r == map(St(0), handle[h], f) IN
    /\ handle[h] # Nil
    /\ nodes[handle[h]].elem = "size_t"
    /\ maps = {}
    /\ Fits(r)
    /\ Commit(r)
    /\ maps' = maps \cup {f}
    /\ handle' = [handle EXCEPT ![g] = r.val]
    /\ uses' = Release(Settle(uses, nodes, r.st.nodes), r.st.nodes, handle[g])
    /\ UNCHANGED <<location_, origin, advances, roots, consumed>>
    /\ OnlyOwn

\* g = h->tail()
OwnTail(h, g) ==
    \E u \in Junk :
        LET r == tail(St(u), handle[h]) IN
        /\ handle[h] # Nil
        /\ Fits(r)
        /\ Commit(r)
        /\ handle' = [handle EXCEPT ![g] = r.val]
        /\ uses' = Reseat(Settle(uses, nodes, r.st.nodes), r.st.nodes, handle[g], r.val)
        /\ UNCHANGED <<location_, origin, advances, maps, roots, consumed>>
        /\ OnlyOwn

\* h.reset()
OwnReset(h) ==
    /\ handle[h] # Nil
    /\ handle' = [handle EXCEPT ![h] = Nil]
    /\ uses' = Release(uses, nodes, handle[h])
    /\ UNCHANGED <<nodes, inp, fCalls, location_, origin, advances, maps, roots, consumed>>
    /\ OnlyOwn

\* c = std::begin(h)
OwnBegin(c, h) ==
    /\ location_' = [location_ EXCEPT ![c] = begin(handle[h])]
    /\ uses' = Reseat(uses, nodes, location_[c], begin(handle[h]))
    /\ origin' = [origin EXCEPT ![c] = handle[h]]
    /\ advances' = [advances EXCEPT ![c] = 0]
    /\ consumed' = consumed \ {c}
    /\ UNCHANGED <<nodes, inp, fCalls, handle, maps, roots>>
    /\ OnlyOwn

\* c = std::begin(std::move(h)): the reference moves from h into the cursor.
OwnBeginMove(c, h) ==
    /\ location_' = [location_ EXCEPT ![c] = begin(handle[h])]
    /\ handle' = [handle EXCEPT ![h] = Consumed(handle[h])]
    /\ uses' = Release(uses, nodes, location_[c])
    /\ origin' = [origin EXCEPT ![c] = handle[h]]
    /\ advances' = [advances EXCEPT ![c] = 0]
    /\ consumed' = consumed \cup {c}
    /\ UNCHANGED <<nodes, inp, fCalls, maps, roots>>
    /\ OnlyOwn

\* ++c
OwnIncrement(c) ==
    \E u \in Junk :
        LET r == increment(St(u), location_[c]) IN
        /\ location_[c] # end
        /\ Fits(r)
        /\ Commit(r)
        /\ location_' = [location_ EXCEPT ![c] = r.val]
        /\ uses' = Reseat(Settle(uses, nodes, r.st.nodes), r.st.nodes, location_[c], r.val)
        /\ advances' = [advances EXCEPT ![c] = @ + 1]
        /\ UNCHANGED <<handle, origin, maps, roots, consumed>>
        /\ OnlyOwn

InitOwn == InitWith(MaxOwnNodes)

NextOwn ==
    \/ \E h \in Handles : OwnFirst(h)
    \/ \E h, g \in Handles : OwnMap(h, g, "dec")
    \/ \E h, g \in Handles : OwnTail(h, g)
    \/ \E h \in Handles : OwnReset(h)
    \/ \E c \in MapCursors, h \in Handles : OwnBegin(c, h)
    \/ \E c \in MapCursors, h \in Handles : OwnBeginMove(c, h)
    \/ \E c \in MapCursors : OwnIncrement(c)

SpecOwn == InitOwn /\ [][NextOwn]_vars

\* The client obtains cursors with both overloads of std::begin, from
\* references to streams of either element type and from empty references,
\* and runs them to the end.
NextBegin ==
    \/ \E h \in Handles : OwnFirst(h)
    \/ \E h \in Handles : OwnRot(h)
    \/ \E h \in Handles : OwnReset(h)
    \/ \E c \in Cursors, h \in Handles : OwnBegin(c, h)
    \/ \E c \in Cursors, h \in Handles : OwnBeginMove(c, h)
    \/ \E c \in Cursors : OwnIncrement(c)

SpecBegin == InitOwn /\ [][NextBegin]_vars

\* The nodes that have not been destroyed.
Live == {n \in Refs : uses[n] > 0}

\* The nodes that node n keeps alive, n among them.
RECURSIVE ReachFrom(_)
ReachFrom(n) == IF n = Nil THEN {} ELSE {n} \cup ReachFrom(Held(nodes[n]))

\* The caller keeps nothing but cursor c.
Sole(c) ==
    /\ \A h \in Handles : handle[h] = Nil
    /\ \A d \in Cursors \ {c} : location_[d] = end

\* The owners of node n.
Referents(n) ==
    {<<"handle", h>> : h \in {x \in Handles : handle[x] = n}}
    \cup {<<"cursor", c>> : c \in {x \in Cursors : location_[x] = n}}
    \cup {<<"tail_", m>> : m \in {x \in Live : Held(nodes[x]) = n}}

(***************************************************************************)
(* C11: when the only reference to the head of a chain is consumed by the  *)
(* consuming begin, the cursor becomes the only owner of the head and the  *)
(* argument is left null.  While the caller keeps nothing but the cursor,  *)
(* the live nodes are the ones the node of the cursor keeps alive; an      *)
(* advance reclaims the node just passed and does not raise the number of  *)
(* live nodes, however many nodes have been made so far.                   *)
(***************************************************************************)
ConsumingBegin(c) ==
    \A h \in Handles :
        (/\ handle[h] # Nil /\ uses[handle[h]] = 1 /\ location_[c] = end
         /\ \A g \in Handles \ {h} : handle[g] = Nil
         /\ handle'[h] = Nil /\ location_'[c] # end /\ c \in consumed') =>
            /\ location_'[c] = handle[h]
            /\ nodes' = nodes
            /\ uses' = uses
            /\ Sole(c)'

SoleAdvance(c) ==
    (Sole(c) /\ advances'[c] = advances[c] + 1) =>
        /\ uses'[location_[c]] = 0
        /\ Cardinality(Live') <= Cardinality(Live)
        /\ Sole(c)'

C11_SlidingWindow ==
    /\ [](\A c \in MapCursors : Sole(c) => Live = ReachFrom(location_[c]))
    /\ [][\A c \in MapCursors : ConsumingBegin(c) /\ SoleAdvance(c)]_vars

\* A cursor from the consuming begin, the only thing the caller keeps, has
\* passed five nodes of the Fibonacci stream and one node is live.
C11_Witness ==
    \E c \in MapCursors :
        /\ c \in consumed /\ Sole(c)
        /\ advances[c] >= 5
        /\ \A n \in 1 .. 5 : nodes[n].madeIn \in {"first", "tail"} /\ uses[n] = 0
        /\ Live = {location_[c]}

(***************************************************************************)
(* C12: the use count of a node is the number of its owners (handles,      *)
(* cursors, the materialized tail slot of a live node, the pending         *)
(* generator of a live node that captured it), and a node is live exactly  *)
(* while the count is not zero: no node with an owner is reclaimed, a node *)
(* without an owner is reclaimed, a reclaimed node stays reclaimed, and    *)
(* with all handles and cursors dropped every node is reclaimed.           *)
(***************************************************************************)
C12_Reclaim ==
    /\ [](/\ \A n \in Refs : uses[n] = Cardinality(Referents(n))
          /\ ((\A h \in Handles : handle[h] = Nil) /\ (\A c \in Cursors : location_[c] = end))
                 => Live = {})
    /\ [][\A n \in Refs : uses[n] = 0 => uses'[n] = 0]_vars

\* A mapped stream and its source were held by handles and a cursor, forced,
\* and then all dropped: every node is reclaimed.
C12_Witness ==
    /\ \A h \in Handles : handle[h] = Nil
    /\ \A c \in Cursors : location_[c] = end
    /\ Len(nodes) >= 5
    /\ \E m \in Refs : nodes[m].mapOf # Nil /\ nodes[m].which = 0 /\ nodes[m].ref # Nil
    /\ Live = {}

(***************************************************************************)
(* Reads.  The const accessors of a node and of a cursor, next to the      *)
(* operations that build and force streams.                                *)
(***************************************************************************)
\* x = n->head()
HeadCall(n) ==
    /\ got' = [got EXCEPT !.head = head(St(0), n)]
    /\ UNCHANGED <<nodes, inp, location_, origin, advances, seen, cells, maps, roots, fCalls, cap, ownVars, ufVars, thrVars, flatVars, optVars, lazyVars, otherVars>>

\* x = *c
Deref(c) ==
    /\ location_[c] # end
    /\ got' = [got EXCEPT !.head = dereference(c)]
    /\ UNCHANGED <<nodes, inp, location_, origin, advances, seen, cells, maps, roots, fCalls, cap, ownVars, ufVars, thrVars, flatVars, optVars, lazyVars, otherVars>>

\* x = (c == d)
Equal(c, d) ==
    /\ got' = [got EXCEPT !.same = equal(c, d)]
    /\ UNCHANGED <<nodes, inp, location_, origin, advances, seen, cells, maps, roots, fCalls, cap, ownVars, ufVars, thrVars, flatVars, optVars, lazyVars, otherVars>>

NextRead ==
    \/ First
    \/ \E n \in Refs, f \in Transforms : Map(n, f)
    \/ \E n \in Refs : TailCall(n)
    \/ \E c \in Cursors, s \in Refs \cup {Nil} : Begin(c, s)
    \/ \E c \in Cursors : Increment(c)
    \/ \E n \in Refs : HeadCall(n)
    \/ \E c \in Cursors : Deref(c)
    \/ \E c, d \in Cursors : Equal(c, d)

SpecRead == Init /\ [][NextRead]_vars

\* The fields of the C++ object: head_ and the variant tail_.
Object(nd) == [head_ |-> nd.head_, which |-> nd.which, ref |-> nd.ref, gen |-> nd.gen]

(***************************************************************************)
(* C13: no step changes the head of an existing node, and the only change  *)
(* a step makes to an existing node is to take its tail slot from pending  *)
(* to materialized, which happens at most once; a read (head(), cursor     *)
(* dereference, cursor comparison) forces nothing and changes nothing but  *)
(* the value the client receives.                                          *)
(***************************************************************************)
C13_Frame ==
    /\ [][\A n \in Refs :
              /\ nodes'[n].head_ = nodes[n].head_
              /\ \/ Object(nodes'[n]) = Object(nodes[n])
                 \/ /\ nodes[n].which = 1 /\ nodes'[n].which = 0
                    /\ nodes[n].invoked = 0 /\ nodes'[n].invoked = 1]_vars
    /\ [][got' # got =>
              UNCHANGED <<nodes, inp, location_, origin, advances, seen, cells, maps, roots, fCalls>>]_vars

\* The client has read the head of a node before and after its tail was
\* forced by a cursor, and other nodes were forced and mapped meanwhile.
C13_Witness ==
    \E n \in Refs :
        /\ nodes[n].born = 1 /\ nodes[n].which = 0
        /\ got.head = nodes[n].head_ /\ got.head = 1
        /\ maps # {}
        /\ \E c \in Cursors : Passed(c, n)

\* The node a cursor stands at, from the reference it was begun at and the
\* number of its advances.
NodeAt(c) ==
    LET ch == ChainFrom(origin[c]) IN
    IF advances[c] < Len(ch) THEN ch[advances[c] + 1] ELSE Nil

(***************************************************************************)
(* C14: two cursors compare equal exactly when they stand at the same node *)
(* or are both null; cursors at two distinct nodes are unequal, also when  *)
(* the heads and all following elements of the two chains are equal.       *)
(***************************************************************************)
C14_IdentityEquality ==
    /\ [](\A c, d \in Cursors :
              /\ equal(c, d) <=> (NodeAt(c) = NodeAt(d))
              /\ location_[c] # location_[d] => ~equal(c, d))
    /\ [][got'.same # got.same =>
              \E c, d \in Cursors : got'.same = (NodeAt(c) = NodeAt(d))]_vars

\* One cursor stands on a stream and one on its map with the identity: the
\* chains hold the same two elements and the cursors have compared unequal.
C14_Witness ==
    \E c, d \in Cursors :
        /\ location_[c] # end /\ location_[d] # end
        /\ location_[c] # location_[d]
        /\ nodes[location_[d]].mapOf = location_[c]
        /\ Len(ChainFrom(location_[c])) = 2
        /\ Heads(ChainFrom(location_[c])) = Heads(ChainFrom(location_[d]))
        /\ got.same = FALSE

(***************************************************************************)
(* C15: a cursor that has not advanced since begin stands at the reference *)
(* begin was given, for either overload: at that node, or at end() when    *)
(* the reference was Nil.  A call of begin makes no node and forces        *)
(* nothing.  A cursor that has run off the last node of a chain, of either *)
(* element type, is end(), the same null cursor that begin gives on Nil.   *)
(***************************************************************************)
BeginStep(c) ==
    \/ origin'[c] # origin[c]
    \/ (c \in consumed') # (c \in consumed)
    \/ advances'[c] = 0 /\ advances[c] > 0

C15_BeginEnd ==
    /\ [](\A c \in Cursors :
              /\ advances[c] = 0 => location_[c] = origin[c]
              /\ (advances[c] = 0 /\ origin[c] = Nil) => (\A d \in Cursors : equal(c, d) <=> location_[d] = end)
              /\ (origin[c] # Nil /\ Complete(origin[c]) /\ advances[c] = Len(ChainFrom(origin[c])))
                     => location_[c] = end)
    /\ [][\A c \in Cursors : BeginStep(c) => nodes' = nodes /\ inp' = inp]_vars

\* One cursor comes from the consuming begin on an empty reference, the
\* other from the borrowing begin and has run off the end of the ROT13
\* stream; a Fibonacci stream exists too.  The two cursors are equal.
C15_Witness ==
    \E c, d \in Cursors :
        /\ c \in consumed /\ advances[c] = 0 /\ origin[c] = Nil
        /\ d \notin consumed /\ origin[d] # Nil /\ nodes[origin[d]].elem = "char"
        /\ advances[d] = 2
        /\ equal(c, d)
        /\ \E h \in Handles : handle[h] # Nil /\ nodes[handle[h]].elem = "size_t"

(***************************************************************************)
(* UniqueFunction.  fh_ is the std::unique_ptr to the holder of the        *)
(* wrapped functor: "none" while the object does not exist, "null" once    *)
(* the object has been moved from.                                         *)
(***************************************************************************)
streamVars == <<nodes, inp, location_, origin, advances, seen, cells, maps, roots, fCalls, cap>>

\* UniqueFunction u(f)
UFConstruct(u, f) ==
    /\ fh_[u] = "none"
    /\ fh_' = [fh_ EXCEPT ![u] = f]
    /\ UNCHANGED <<ran, outcome, streamVars, ownVars, got, thrVars, flatVars, optVars, lazyVars, otherVars>>

\* UniqueFunction u(std::move(v))
UFMove(u, v) ==
    /\ fh_[u] = "none" /\ fh_[v] # "none"
    /\ fh_' = [fh_ EXCEPT ![u] = fh_[v], ![v] = "null"]
    /\ UNCHANGED <<ran, outcome, streamVars, ownVars, got, thrVars, flatVars, optVars, lazyVars, otherVars>>

\* u(): std::invoke(*fh_).  Nothing tests fh_; on a null fh_ the
\* dereference is undefined.
UFInvoke(u) ==
    /\ fh_[u] # "none"
    /\ IF fh_[u] = "null"
       THEN outcome' \in NullCall /\ ran' = ran
       ELSE outcome' = "returned" /\ ran' = ran \cup {fh_[u]}
    /\ UNCHANGED <<fh_, streamVars, ownVars, got, thrVars, flatVars, optVars, lazyVars, otherVars>>

\* u goes out of scope
UFDestroy(u) ==
    /\ fh_[u] # "none"
    /\ fh_' = [fh_ EXCEPT ![u] = "none"]
    /\ UNCHANGED <<ran, outcome, streamVars, ownVars, got, thrVars, flatVars, optVars, lazyVars, otherVars>>

InitUF == InitWith(0)

NextUF ==
    \/ \E u \in UFs, f \in Functors : UFConstruct(u, f)
    \/ \E u, v \in UFs : UFMove(u, v)
    \/ \E u \in UFs : UFInvoke(u)
    \/ \E u \in UFs : UFDestroy(u)

SpecUF == InitUF /\ [][NextUF]_vars

(***************************************************************************)
(* C16 as claimed: a call on a moved-from UniqueFunction stops at the call *)
(* (an invalid-state error, or at least a crash); it invokes no functor    *)
(* and does not run on.                                                    *)
(***************************************************************************)
C16_MovedFromFailsFast ==
    [][\A u \in UFs :
          (fh_[u] = "null" /\ (outcome' # outcome \/ ran' # ran)) =>
              outcome' \in {"invalid state", "crash"} /\ ran' = ran]_vars

(***************************************************************************)
(* Threads.  Stream::tail as the steps a thread takes through it, with no  *)
(* synchronization between them:                                           *)
(*   check      if (tail_.which())                                         *)
(*   invoke     boost::get<F>(tail_)()          (the argument of emplace)  *)
(*   destroy    t.~T()                          (in detail::emplace)       *)
(*   construct  new (&t) T(r)                   (in detail::emplace)       *)
(*   get        return boost::get<StreamT>(tail_)                          *)
(* Between destroy and construct the slot holds no alternative (which =    *)
(* 2).  An access of the slot that races with a write of another thread is *)
(* undefined: the thread may see the old or the new contents.              *)
(***************************************************************************)
\* which() answered from what the other threads are doing: a slot that
\* another thread is about to materialize is not reported pending.
which_Exclusive(t, n) ==
    IF \E o \in Threads \ {t} : thr[o].n = n /\ pc[o] \in {"invoke", "destroy", "construct"}
    THEN {0}
    ELSE IF nodes[n].which = 2 THEN {0, 1} ELSE {nodes[n].which}

\* A test that finds every slot pending.
which_Pending(t, n) == {1}

\* tail_.which() as thread t may read it.
which(t, n) == IF nodes[n].which = 2 THEN {0, 1} ELSE {nodes[n].which}

OnlyThreads == UNCHANGED <<location_, origin, advances, seen, cells, maps, roots, cap, ownVars, got, ufVars, flatVars,
                         optVars, lazyVars, otherVars>>

\* Thread t calls n->tail().
Check(t, n) ==
    /\ pc[t] = "idle"
    /\ \E w \in which(t, n) :
           /\ pc' = [pc EXCEPT ![t] = IF w = 1 THEN "invoke" ELSE "get"]
           /\ thr' = [thr EXCEPT ![t] = [n |-> n, gen |-> nodes[n].gen, r |-> Nil, val |-> Nil]]
    /\ UNCHANGED <<nodes, inp, fCalls>>
    /\ OnlyThreads

\* A tail() that moves the functor out of the slot before it calls it.
InvokeStep_MovedOut(t) ==
    LET n == thr[t].n
        r == Invoke(St(0), thr[t].gen, "tail") IN
    /\ pc[t] = "invoke"
    /\ thr[t].gen # NoGen
    /\ Fits(r)
    /\ nodes' = [r.st.nodes EXCEPT ![n].invoked = @ + 1, ![n].which = 2, ![n].gen = NoGen]
    /\ inp' = r.st.inp /\ fCalls' = r.st.fCalls
    /\ pc' = [pc EXCEPT ![t] = "destroy"]
    /\ thr' = [thr EXCEPT ![t].r = r.val]
    /\ OnlyThreads

\* boost::get<F>(tail_)(): the functor in the slot is called.  When another
\* thread has meanwhile destroyed it, the thread gets boost::bad_get or
\* calls the functor it saw.
InvokeStep(t) ==
    LET n == thr[t].n
        r == Invoke(St(0), thr[t].gen, "tail") IN
    /\ pc[t] = "invoke"
    /\ \/ /\ thr[t].gen # NoGen
          /\ Fits(r)
          /\ nodes' = [r.st.nodes EXCEPT ![n].invoked = @ + 1]
          /\ inp' = r.st.inp /\ fCalls' = r.st.fCalls
          /\ pc' = [pc EXCEPT ![t] = "destroy"]
          /\ thr' = [thr EXCEPT ![t].r = r.val]
       \/ /\ nodes[n].which # 1
          /\ pc' = [pc EXCEPT ![t] = "idle"]
          /\ thr' = [thr EXCEPT ![t].val = Nil]
          /\ UNCHANGED <<nodes, inp, fCalls>>
    /\ OnlyThreads

\* t.~T()
DestroyStep(t) ==
    /\ pc[t] = "destroy"
    /\ nodes' = [nodes EXCEPT ![thr[t].n].which = 2, ![thr[t].n].ref = Nil, ![thr[t].n].gen = NoGen]
    /\ pc' = [pc EXCEPT ![t] = "construct"]
    /\ UNCHANGED <<thr, inp, fCalls>>
    /\ OnlyThreads

\* new (&t) T(r)
ConstructStep(t) ==
    /\ pc[t] = "construct"
    /\ nodes' = [nodes EXCEPT ![thr[t].n] = emplace(@, thr[t].r)]
    /\ pc' = [pc EXCEPT ![t] = "get"]
    /\ UNCHANGED <<thr, inp, fCalls>>
    /\ OnlyThreads

\* return boost::get<StreamT>(tail_): the caller reads the reference.  A
\* slot that another thread has destroyed yields anything.
GetStep(t) ==
    LET n == thr[t].n IN
    /\ pc[t] = "get"
    /\ \E v \in (IF nodes[n].which = 0 THEN {nodes[n].ref} ELSE Refs \cup {Nil}) :
           /\ thr' = [thr EXCEPT ![t].val = v]
           /\ nodes' = [nodes EXCEPT ![n].returned = @ \cup {v}]
    /\ pc' = [pc EXCEPT ![t] = "idle"]
    /\ UNCHANGED <<inp, fCalls>>
    /\ OnlyThreads

NextThreads ==
    \/ First
    \/ \E t \in Threads, n \in Refs : Check(t, n)
    \/ \E t \in Threads : InvokeStep(t)
    \/ \E t \in Threads : DestroyStep(t)
    \/ \E t \in Threads : ConstructStep(t)
    \/ \E t \in Threads : GetStep(t)

InitThreads == InitWith(MaxThreadNodes)

SpecThreads == InitThreads /\ [][NextThreads]_vars

(***************************************************************************)
(* C17: nothing in tail() keeps a second thread out.  A thread that tests  *)
(* a pending slot goes on to call the generator whatever the other threads *)
(* are doing, and each such call while the slot is pending runs the        *)
(* generator again and makes another node; so two threads on one pending   *)
(* node can both see it pending and invoke its generator twice, and a      *)
(* thread can find the slot destroyed under it.                            *)
(***************************************************************************)
C17_Unsynchronized ==
    /\ [][\A t \in Threads, n \in Refs :
              (pc[t] = "idle" /\ pc'[t] # "idle" /\ thr'[t].n = n /\ nodes[n].which = 1) =>
                  pc'[t] = "invoke"]_vars
    /\ [][\A t \in Threads :
              (pc[t] = "invoke" /\ pc'[t] = "destroy") =>
                  /\ nodes'[thr[t].n].invoked = nodes[thr[t].n].invoked + 1
                  /\ Len(nodes') = Len(nodes) + 1
                  /\ thr'[t].r = Len(nodes')]_vars

\* Both threads saw the same slot pending; its generator has run twice and
\* made two nodes, and the two calls of tail() have returned different
\* references.
C17_Witness ==
    \E n \in Refs :
        /\ nodes[n].invoked = 2
        /\ \A t \in Threads : thr[t].n = n /\ pc[t] = "idle" /\ thr[t].r # Nil
        /\ thr["t1"].r # thr["t2"].r
        /\ thr["t1"].val # thr["t2"].val
        /\ Cardinality(nodes[n].returned) = 2

(***************************************************************************)
(* FlatIterator over a range of ranges foo.  outerPos_ is the rest of the  *)
(* outer range as the positions [b, e) in foo; innerPos_ is position j of  *)
(* inner range k, where j = Len(foo[k]) + 1 is the end of that range.      *)
(***************************************************************************)
\* The lengths of the inner ranges of the example input.
ExampleShape == <<0, 0, 1, 3, 0, 0, 0, 1, 0, 1, 0>>

Shapes == {ExampleShape} \cup UNION {[1 .. n -> 0 .. MaxInner] : n \in 0 .. MaxOuter}

RECURSIVE Before(_, _)
Before(shape, i) == IF i = 1 THEN 0 ELSE Before(shape, i - 1) + shape[i - 1]

\* The range of ranges of a shape, its elements numbered from 0 as in the
\* example.
Filled(shape) ==
    [i \in 1 .. Len(shape) |-> [j \in 1 .. shape[i] |-> Before(shape, i) + j - 1]]

RECURSIVE skipEmpty(_, _, _), skipEmpty_Once(_, _, _)

\* skipEmpty with `if` for `while`: one empty range is skipped.
skipEmpty_Once(f, o, i) ==
    IF o.b # o.e /\ i = [k |-> o.b, j |-> Len(f[o.b]) + 1]
    THEN IF o.b + 1 = o.e
         THEN [outerPos_ |-> [o EXCEPT !.b = @ + 1], innerPos_ |-> Singular]
         ELSE [outerPos_ |-> [o EXCEPT !.b = @ + 1], innerPos_ |-> [k |-> o.b + 1, j |-> 1]]
    ELSE [outerPos_ |-> o, innerPos_ |-> i]

\* FlatIterator::skipEmpty
skipEmpty(f, o, i) ==
    IF o.b # o.e /\ i = [k |-> o.b, j |-> Len(f[o.b]) + 1]
    THEN IF o.b + 1 = o.e
         THEN [outerPos_ |-> [o EXCEPT !.b = @ + 1], innerPos_ |-> Singular]
         ELSE skipEmpty(f, [o EXCEPT !.b = @ + 1], [k |-> o.b + 1, j |-> 1])
    ELSE [outerPos_ |-> o, innerPos_ |-> i]

\* FlatIterator::FlatIterator(begin, end)
FlatIterator(f, b, e) ==
    skipEmpty(f, [b |-> b, e |-> e], IF b = e THEN Singular ELSE [k |-> b, j |-> 1])

\* increment without skipEmpty
flatIncrement_NoSkip(f, it) ==
    [outerPos_ |-> it.outerPos_, innerPos_ |-> [it.innerPos_ EXCEPT !.j = @ + 1]]

\* FlatIterator::increment
flatIncrement(f, it) == skipEmpty(f, it.outerPos_, [it.innerPos_ EXCEPT !.j = @ + 1])

\* FlatIterator::dereference: *innerPos_; outside the range the read is
\* undefined.
flatDereference(f, it) ==
    LET i == it.innerPos_ IN
    IF i.k \in 1 .. Len(f) /\ i.j \in 1 .. Len(f[i.k]) THEN {f[i.k][i.j]} ELSE Indeterminate

\* FlatIterator::equal: boost::iterator_range compares the two ranges
\* element by element.
flatEqual(f, x, y) ==
    /\ SubSeq(f, x.outerPos_.b, x.outerPos_.e - 1) = SubSeq(f, y.outerPos_.b, y.outerPos_.e - 1)
    /\ x.innerPos_ = y.innerPos_

This == [outerPos_ |-> outerPos_, innerPos_ |-> innerPos_]

\* Nothing of the stream library is in use.
NoStream ==
    /\ nodes = <<>>
    /\ inp = [data |-> <<>>, pos |-> 0, eof |-> FALSE]
    /\ location_ = [c \in Cursors |-> end]
    /\ origin = [c \in Cursors |-> Nil]
    /\ advances = [c \in Cursors |-> 0]
    /\ seen = [c \in Cursors |-> <<>>]
    /\ cells = 0
    /\ maps = {}
    /\ roots = {}
    /\ fCalls = 0
    /\ cap = 0

GotIdle == got = [head |-> 0, same |-> TRUE]

\* makeFlatIterator(foo.begin(), foo.end()) and an empty bar
InitFlat ==
    /\ NoStream /\ NoOwn /\ GotIdle /\ NoUF /\ NoThreads /\ NoOpt /\ NoLazy /\ NoOther
    /\ foo \in {Filled(shape) : shape \in Shapes}
    /\ outerPos_ = FlatIterator(foo, 1, Len(foo) + 1).outerPos_
    /\ innerPos_ = FlatIterator(foo, 1, Len(foo) + 1).innerPos_
    /\ bar = <<>>

\* makeFlatIterator(foo.end(), foo.end())
Last == FlatIterator(foo, Len(foo) + 1, Len(foo) + 1)

RECURSIVE Flatten(_)
Flatten(f) == IF f = <<>> THEN <<>> ELSE Head(f) \o Flatten(Tail(f))

\* One round of std::copy: *result++ = *first++ while first != last.  The
\* run is followed for one round more than foo has elements.
CopyStep ==
    /\ ~flatEqual(foo, This, Last)
    /\ Len(bar) <= Len(Flatten(foo))
    /\ \E v \in flatDereference(foo, This) : bar' = Append(bar, v)
    /\ outerPos_' = flatIncrement(foo, This).outerPos_
    /\ innerPos_' = flatIncrement(foo, This).innerPos_
    /\ UNCHANGED <<foo, streamVars, ownVars, got, ufVars, thrVars, optVars, lazyVars, otherVars>>

NextFlat == CopyStep

SpecFlat == InitFlat /\ [][NextFlat]_vars

\* std::copy keeps going while the iterators differ.
SpecFlatLive == SpecFlat /\ WF_vars(NextFlat)

\* C18: the elements copied so far are the first elements of the inner
\* ranges taken in outer order and then inner order, the iterator stands on
\* the next element (never at the end of an inner range), and once it equals
\* the iterator built from (end, end) every element of every inner range has
\* been yielded exactly once; the example input yields 0, 1, 2, 3, 4, 5.
C18_Flatten ==
    /\ Len(bar) <= Len(Flatten(foo))
    /\ bar = SubSeq(Flatten(foo), 1, Len(bar))
    /\ flatEqual(foo, This, Last) <=> bar = Flatten(foo)
    /\ ~flatEqual(foo, This, Last) =>
           flatDereference(foo, This) = {Flatten(foo)[Len(bar) + 1]}
    /\ foo = Filled(ExampleShape) /\ flatEqual(foo, This, Last) => bar = <<0, 1, 2, 3, 4, 5>>

\* The example input has been flattened to its end.
C18_Witness ==
    /\ foo = Filled(ExampleShape)
    /\ flatEqual(foo, This, Last)
    /\ bar = <<0, 1, 2, 3, 4, 5>>

(***************************************************************************)
(* each(opt): a boost::optional as a range of at most one element.  An     *)
(* OptionalIterator refers to an optional by address; typedNone_ is the    *)
(* function-local static none that every end iterator refers to.           *)
(***************************************************************************)
OptValues == {1, 3}

Optionals == {<<>>} \cup {<<v>> : v \in OptValues}

typedNone == "typedNone_"

\* OptionalIterator::increment
optIncrement(p) == typedNone

\* OptionalIterator::dereference: *(pos_.get()); on none the read is undefined.
optDereference(m, p) == IF m[p] # <<>> THEN {m[p][1]} ELSE Indeterminate

\* OptionalIterator::equal with the both-none test left out
optEqual_ByAddress(m, p, q) == p = q

\* OptionalIterator::equal
optEqual(m, p, q) == (m[p] = <<>> /\ m[q] = <<>>) \/ p = q

\* OptionalRangeOwning::begin, OptionalRangeBorrowed::begin
optBegin == contents_

\* OptionalRangeOwning::end, OptionalRangeBorrowed::end
optEnd == typedNone

\* The range-for statement before this one has run to its end.
Finished == optEqual(mem, pos_, optEnd)

OnlyOpt == UNCHANGED <<streamVars, ownVars, got, ufVars, thrVars, flatVars, lazyVars, otherVars>>

\* for (auto a : each(t)) with t an lvalue holding o: the range refers to t.
EachBorrowed(o) ==
    /\ Finished
    /\ loops < MaxLoops
    /\ mem' = [mem EXCEPT !["t"] = o]
    /\ contents_' = "t"
    /\ pos_' = "t"
    /\ yielded' = <<>>
    /\ loops' = loops + 1
    /\ UNCHANGED out
    /\ OnlyOpt

\* for (auto c : each(boost::optional<int>{o})): the range holds the optional.
EachOwning(o) ==
    /\ Finished
    /\ loops < MaxLoops
    /\ mem' = [mem EXCEPT !["contents_"] = o]
    /\ contents_' = "contents_"
    /\ pos_' = "contents_"
    /\ yielded' = <<>>
    /\ loops' = loops + 1
    /\ UNCHANGED out
    /\ OnlyOpt

\* One round of the range-for: the body prints *it, then ++it.
LoopStep ==
    /\ ~Finished
    /\ \E v \in optDereference(mem, pos_) :
           /\ yielded' = Append(yielded, v)
           /\ out' = Append(out, v)
    /\ pos_' = optIncrement(pos_)
    /\ UNCHANGED <<mem, contents_, loops>>
    /\ OnlyOpt

InitOpt ==
    /\ NoStream /\ NoOwn /\ GotIdle /\ NoUF /\ NoThreads /\ NoFlat /\ NoLazy /\ NoOther
    /\ NoOpt

NextOpt ==
    \/ \E o \in Optionals : EachBorrowed(o)
    \/ \E o \in Optionals : EachOwning(o)
    \/ LoopStep

SpecOpt == InitOpt /\ [][NextOpt]_vars

\* C19: for the borrowing and the owning range alike, begin equals end
\* exactly when the optional is none, one advance of begin gives an iterator
\* equal to end, nothing is yielded before the first round, and a finished
\* range-for has yielded the contained value once or, for none, nothing.
C19_Each ==
    /\ optEqual(mem, optBegin, optEnd) <=> mem[contents_] = <<>>
    /\ optEqual(mem, optIncrement(optBegin), optEnd)
    /\ Finished => yielded = mem[contents_]
    /\ ~Finished => yielded = <<>> /\ pos_ = optBegin
    /\ Len(out) <= loops

\* The example has run: none and 1 borrowed, then 3 owned.
C19_Witness ==
    /\ loops = 3
    /\ Finished
    /\ mem["t"] = <<1>>
    /\ contents_ = "contents_"
    /\ yielded = <<3>>
    /\ out = <<1, 3>>

(***************************************************************************)
(* lazy and LAZY_V with std::map::try_emplace.  X of the i-th call (from   *)
(* 0) has the value i, as in the example, and evaluating it logs i in      *)
(* blips, as the example prints "blip".                                    *)
(***************************************************************************)
ExampleCalls == 10

Keys == 0 .. MaxKey

\* X evaluated where it is written, not deferred
LAZY_V_Eager(x) == [x |-> x, blipped |-> <<x>>, throws |-> FALSE]

\* LAZY_V(X): lazy{[&](){ return (X); }}, nothing is evaluated yet
LAZY_V(x) == [x |-> x, blipped |-> <<>>, throws |-> FALSE]

\* _TODO(type): lazy{[]() -> type { throw std::runtime_error("not implemented"); }}
_TODO == [x |-> 0, blipped |-> <<>>, throws |-> TRUE]

\* A conversion that gives a value-initialized result where the thunk throws.
type_NoThrow(l) == [thrown |-> "none", value |-> l.x, blipped |-> Append(l.blipped, l.x)]

\* lazy::operator type() &&: calls the thunk, which evaluates X or throws;
\* when it throws there is no value.
type(l) ==
    IF l.throws
    THEN [thrown |-> "not implemented", blipped |-> l.blipped]
    ELSE [thrown |-> "none", value |-> l.x, blipped |-> Append(l.blipped, l.x)]

\* map.try_emplace(k, l): the mapped value is constructed from l, which
\* converts it, only if k is absent; otherwise l is left untouched.
try_emplace(m, k, l) ==
    IF k \in DOMAIN m
    THEN [map |-> m, blipped |-> l.blipped]
    ELSE [map |-> (k :> type(l).value) @@ m, blipped |-> type(l).blipped]

\* example.try_emplace(k, LAZY_V(((std::cout << "blip"), i)))
Emplace(k) ==
    LET i == Len(calls)
        r == try_emplace(example, k, LAZY_V(i))
    IN  /\ at = "loop"
        /\ example' = r.map
        /\ blips' = blips \o r.blipped
        /\ calls' = Append(calls, k)
        /\ UNCHANGED <<streamVars, ownVars, got, ufVars, thrVars, flatVars, optVars, otherVars>>

\* A call with any key.
TryEmplace(k) ==
    /\ Len(calls) < MaxCalls
    /\ Emplace(k)

\* One round of the example's loop: the key is i / 2.
ExampleStep ==
    /\ Len(calls) < ExampleCalls
    /\ \A j \in 1 .. Len(calls) : calls[j] = (j - 1) \div 2
    /\ Emplace(Len(calls) \div 2)

InitLazy ==
    /\ NoStream /\ NoOwn /\ GotIdle /\ NoUF /\ NoThreads /\ NoFlat /\ NoOpt /\ NoOther
    /\ NoLazy

NextLazy ==
    \/ \E k \in Keys : TryEmplace(k)
    \/ ExampleStep

SpecLazy == InitLazy /\ [][NextLazy]_vars

\* The calls whose key no earlier call passed.
FirstCalls ==
    {i \in 0 .. Len(calls) - 1 : \A j \in 0 .. i - 1 : calls[j + 1] # calls[i + 1]}

\* C20: X has been evaluated exactly once for every call whose key was
\* absent when it was made and never for a call whose key was present; the
\* map holds, for every key passed, the value X produced in the call that
\* inserted it; in the example, with keys i / 2, only even i evaluate X.
C20_LazyOnce ==
    /\ \A n \in 1 .. Len(blips) : blips[n] \in FirstCalls
    /\ \A i \in FirstCalls : Cardinality({n \in 1 .. Len(blips) : blips[n] = i}) = 1
    /\ DOMAIN example = {calls[j] : j \in 1 .. Len(calls)}
    /\ \A k \in DOMAIN example : example[k] \in FirstCalls /\ calls[example[k] + 1] = k
    /\ (\A j \in 1 .. Len(calls) : calls[j] = (j - 1) \div 2) =>
           \A n \in 1 .. Len(blips) : blips[n] % 2 = 0

\* The example's loop has run its ten rounds.
C20_Witness ==
    /\ Len(calls) = ExampleCalls
    /\ blips = <<0, 2, 4, 6, 8>>
    /\ DOMAIN example = 0 .. 4
    /\ \A k \in 0 .. 4 : example[k] = 2 * k

(***************************************************************************)
(* The end of main of the lazy example: int beep = <initializer>; then the *)
(* line "beep value: " is printed.  main has no handler, so an exception   *)
(* ends the program.                                                       *)
(***************************************************************************)
\* int beep = l: the conversion initializes beep unless it throws.
Convert(l) ==
    LET r == type(l)
        init == IF l.throws THEN "_TODO" ELSE "LAZY_V" IN
    /\ at = "loop"
    /\ blips' = blips \o r.blipped
    /\ IF r.thrown # "none"
       THEN /\ raised' = r.thrown
            /\ beep' = [beep EXCEPT !.init = init]
            /\ at' = "terminated"
       ELSE /\ beep' = [init |-> init, set |-> TRUE, value |-> r.value]
            /\ at' = "print"
            /\ UNCHANGED raised
    /\ UNCHANGED <<example, calls, cout>>
    /\ UNCHANGED <<streamVars, ownVars, got, ufVars, thrVars, flatVars, optVars, lockVars, thrown>>

\* std::cout << "beep value: " << beep << std::endl
PrintBeep ==
    /\ at = "print"
    /\ cout' = Append(cout, <<"beep value: ", beep.value>>)
    /\ at' = "return"
    /\ UNCHANGED <<beep, raised, lazyVars>>
    /\ UNCHANGED <<streamVars, ownVars, got, ufVars, thrVars, flatVars, optVars, lockVars, thrown>>

NextTodo ==
    \/ \E k \in Keys : TryEmplace(k)
    \/ ExampleStep
    \/ \E l \in {_TODO, LAZY_V(Len(calls))} : Convert(l)
    \/ PrintBeep

SpecTodo == InitLazy /\ [][NextTodo]_vars

\* C21: once beep has been initialized from _TODO(int), the exception
\* runtime_error("not implemented") is in flight, beep has no value, nothing
\* has been printed after the loop, and the program has ended: no statement
\* runs after the conversion.
C21_TodoThrows ==
    /\ [](beep.init = "_TODO" =>
              /\ raised = "not implemented"
              /\ ~beep.set
              /\ cout = <<>>
              /\ at = "terminated")
    /\ [][at # "terminated"]_vars

\* The example: after the ten rounds of the loop the conversion has thrown.
C21_Witness ==
    /\ Len(calls) = ExampleCalls
    /\ blips = <<0, 2, 4, 6, 8>>
    /\ beep.init = "_TODO"
    /\ raised = "not implemented"
    /\ cout = <<>>

(***************************************************************************)
(* One caller: the steps of tail() with nothing running between them.      *)
(***************************************************************************)
Caller == "t1"

\* The caller builds streams between its calls of tail().
NextSteps ==
    \/ pc[Caller] = "idle" /\ First
    \/ pc[Caller] = "idle" /\ \E n \in Refs, f \in Transforms : Map(n, f)
    \/ \E n \in Refs : Check(Caller, n)
    \/ InvokeStep(Caller)
    \/ DestroyStep(Caller)
    \/ ConstructStep(Caller)
    \/ GetStep(Caller)

SpecSteps == Init /\ [][NextSteps]_vars

\* The slot that the call in progress is about.
Slot == nodes[thr[Caller].n]

\* C22: in the first tail() of a pending node the generator is called while
\* the slot holds it and the slot still holds it when it has returned; then
\* the generator is destroyed, then the returned reference is constructed in
\* the same slot, then the reference is read.  Between two calls the caller
\* finds no slot empty, and the node tail() has returned from holds the
\* returned reference and nothing of the generator.
C22_ForceOrder ==
    /\ [](pc[Caller] = "idle" =>
              /\ \A n \in Refs : nodes[n].which \in {0, 1}
              /\ thr[Caller].n # Nil =>
                     /\ Slot.which = 0 /\ Slot.gen = NoGen
                     /\ Held(Slot) = thr[Caller].val
                     /\ Slot.born = 1 => Slot.invoked = 1)
    /\ [][/\ (pc[Caller] = "idle" /\ pc'[Caller] # "idle") => pc'[Caller] \in {"invoke", "get"}
          /\ (pc[Caller] = "idle" /\ pc'[Caller] = "invoke") =>
                 Slot'.which = 1 /\ Slot'.invoked = 0
          /\ pc[Caller] = "invoke" =>
                 /\ pc'[Caller] = "destroy"
                 /\ Slot.which = 1 /\ Slot'.which = 1 /\ Slot'.gen = Slot.gen
                 /\ Slot'.invoked = 1
          /\ pc[Caller] = "destroy" =>
                 /\ pc'[Caller] = "construct"
                 /\ Slot'.which = 2 /\ Slot'.gen = NoGen /\ Slot'.invoked = 1
          /\ pc[Caller] = "construct" =>
                 /\ pc'[Caller] = "get"
                 /\ Slot'.which = 0 /\ Slot'.ref = thr[Caller].r /\ Slot'.gen = NoGen
          /\ pc[Caller] = "get" =>
                 /\ pc'[Caller] = "idle"
                 /\ thr'[Caller].val = Slot.ref]_vars

\* tail() has returned from forcing a node of a mapped stream, whose
\* generator had captured a source node.
C22_Witness ==
    /\ pc[Caller] = "idle"
    /\ thr[Caller].n # Nil
    /\ Slot.mapOf # Nil
    /\ thr[Caller].gen.kind = "Map"
    /\ Slot.invoked = 1
    /\ thr[Caller].val = thr[Caller].r
    /\ thr[Caller].val # Nil

(***************************************************************************)
(* tail() with the slot of each node guarded by a reader/writer lock, as   *)
(* the comment in tail() proposes: the slot is inspected and read under    *)
(* the read lock and materialized under the write lock.  The steps between *)
(* the lock operations are those of tail(); the lock steps are not code of *)
(* the library.  A thread holds the lock `mode` on the slot of its call    *)
(* while the call is in progress.  Two ways of taking the write lock are   *)
(* covered: the writer goes straight to the generator call, or it inspects *)
(* the slot again first (recheck).                                         *)
(***************************************************************************)
Holds(t, n, m) == pc[t] # "idle" /\ thr[t].n = n /\ mode[t] = m

\* A reader waits for the writer; a writer waits for everyone else.
CanRead(t, n) == \A u \in Threads \ {t} : ~Holds(u, n, "w")
CanWrite(t, n) == \A u \in Threads \ {t} : ~Holds(u, n, "w") /\ ~Holds(u, n, "r")

OnlyLocks ==
    UNCHANGED <<streamVars, ownVars, got, ufVars, flatVars, optVars, lazyVars, todoVars, recheck,
                thrown>>

\* Thread t calls n->tail() and takes the read lock.
RLock(t, n) ==
    /\ pc[t] = "idle"
    /\ CanRead(t, n)
    /\ pc' = [pc EXCEPT ![t] = "inspect"]
    /\ thr' = [thr EXCEPT ![t] = [n |-> n, gen |-> NoGen, r |-> Nil, val |-> Nil]]
    /\ mode' = [mode EXCEPT ![t] = "r"]
    /\ UNCHANGED wlocked
    /\ OnlyLocks

\* if(tail_.which()) under the read lock: a materialized slot is read under
\* the same lock, for a pending one the read lock is given up.
InspectL(t) ==
    /\ pc[t] = "inspect"
    /\ \E w \in which(t, thr[t].n) :
           /\ pc' = [pc EXCEPT ![t] = IF w = 1 THEN "wlock" ELSE "get"]
           /\ mode' = [mode EXCEPT ![t] = IF w = 1 THEN "none" ELSE "r"]
    /\ UNCHANGED <<thr, wlocked>>
    /\ OnlyLocks

\* The write lock is taken; with recheck the slot is inspected again.
WLock(t) ==
    LET n == thr[t].n IN
    /\ pc[t] = "wlock"
    /\ CanWrite(t, n)
    /\ mode' = [mode EXCEPT ![t] = "w"]
    /\ wlocked' = wlocked \cup {<<t, n>>}
    /\ thr' = [thr EXCEPT ![t].gen = nodes[n].gen]
    /\ \E w \in (IF recheck THEN which(t, n) ELSE {1}) :
           pc' = [pc EXCEPT ![t] = IF w = 1 THEN "invoke" ELSE "get"]
    /\ OnlyLocks

\* The stream state at the start, with heap capacity k.
Fresh(k) ==
    /\ nodes = <<>>
    /\ inp = [data |-> <<>>, pos |-> 0, eof |-> FALSE]
    /\ location_ = [c \in Cursors |-> end]
    /\ origin = [c \in Cursors |-> Nil]
    /\ advances = [c \in Cursors |-> 0]
    /\ seen = [c \in Cursors |-> <<>>]
    /\ cells = 0
    /\ maps = {}
    /\ roots = {}
    /\ fCalls = 0
    /\ cap = k

InitLocked ==
    /\ Fresh(MaxThreadNodes)
    /\ NoOwn /\ GotIdle /\ NoUF /\ NoThreads /\ NoFlat /\ NoOpt /\ NoLazy /\ NoTodo
    /\ mode = [t \in Threads |-> "none"]
    /\ wlocked = {}
    /\ recheck \in BOOLEAN
    /\ thrown = {}

NextLocked ==
    \/ First
    \/ \E t \in Threads, n \in Refs : RLock(t, n)
    \/ \E t \in Threads : InspectL(t)
    \/ \E t \in Threads : WLock(t)
    \/ \E t \in Threads : InvokeStep(t)
    \/ \E t \in Threads : DestroyStep(t)
    \/ \E t \in Threads : ConstructStep(t)
    \/ \E t \in Threads : GetStep(t)

SpecLocked == InitLocked /\ [][NextLocked]_vars

\* The threads that have taken the write lock of node n.
Writers(n) == {t \in Threads : <<t, n>> \in wlocked}

\* The calls of tail() on node n that have come back.
Back(n) == {t \in Threads : pc[t] = "idle" /\ thr[t].n = n}

C24_FlatTerminates ==
    /\ [](/\ Len(bar) <= Len(Flatten(foo))
          /\ flatEqual(foo, This, Last) <=> Len(bar) = Len(Flatten(foo))
          /\ outerPos_.b <= outerPos_.e
          /\ outerPos_.b = outerPos_.e <=> innerPos_ = Singular)
    /\ <>[]flatEqual(foo, This, Last)

\* Two increments have taken the iterator over <<>>, <<0, 1>>, <<>> to the end.
C24_Witness ==
    /\ foo = Filled(<<0, 2, 0>>)
    /\ Len(bar) = 2
    /\ flatEqual(foo, This, Last)

(***************************************************************************)
(* Generators that throw.  Cell allocates (std::make_shared), which can    *)
(* fail in every generator; in MapF the transform can throw, and the       *)
(* tail() of the source node can.  What a generator did before it threw    *)
(* stays done.                                                             *)
(***************************************************************************)
RECURSIVE InvokeFails(_, _), tailThrows(_, _), tailThrows_Emptied(_, _)

\* The states in which a call of generator g can end with an exception.
InvokeFails(st, g) ==
    CASE g.kind = "Fib" -> {st}
      [] g.kind = "ROT13" ->
            IF st.inp.eof THEN {}
            ELSE {[st EXCEPT !.inp = IF st.inp.pos < Len(st.inp.data)
                                     THEN [st.inp EXCEPT !.pos = @ + 1]
                                     ELSE [st.inp EXCEPT !.eof = TRUE]]}
      [] g.kind = "Map" ->
            LET s == IF g.viaTail
                     THEN tail([st EXCEPT !.nodes[g.src].byMap = @ + 1], g.src)
                     ELSE [st |-> st, val |-> g.src]
            IN  (IF g.viaTail /\ st.nodes[g.src].which = 1 THEN tailThrows(st, g.src) ELSE {})
                \cup (IF s.val # Nil THEN {s.st, [s.st EXCEPT !.fCalls = @ + 1]} ELSE {})
      [] OTHER -> {}

\* A tail() that destroys the functor before it calls it.
tailThrows_Emptied(st, n) ==
    {[s EXCEPT !.nodes[n].which = 2, !.nodes[n].gen = NoGen] : s \in InvokeFails(st, st.nodes[n].gen)}

\* Stream::tail when the generator throws: the call of the generator is the
\* argument of emplace, so emplace is not entered.
tailThrows(st, n) == IF st.nodes[n].which = 1 THEN InvokeFails(st, st.nodes[n].gen) ELSE {}

OnlyThrows ==
    UNCHANGED <<location_, origin, advances, seen, cells, maps, roots, cap, ownVars, got, ufVars,
                thrVars, flatVars, optVars, lazyVars, todoVars, lockVars>>

\* n->tail() ends in an exception.
TailThrows(n) ==
    \E s \in tailThrows(St(0), n) :
        /\ n \notin thrown
        /\ Len(s.nodes) <= cap
        /\ nodes' = s.nodes /\ inp' = s.inp /\ fCalls' = s.fCalls
        /\ thrown' = thrown \cup {n}
        /\ OnlyThrows

\* ++c ends in an exception: location_ = location_->tail() assigns nothing.
IncrementThrows(c) ==
    /\ location_[c] # end
    /\ TailThrows(location_[c])

NextThrow ==
    \/ First
    \/ Rot
    \/ \E n \in Refs, f \in Transforms : Map(n, f)
    \/ \E n \in Refs : TailCall(n)
    \/ \E c \in MapCursors, s \in Refs \cup {Nil} : Begin(c, s)
    \/ \E c \in MapCursors : Increment(c)
    \/ \E n \in Refs : TailThrows(n)
    \/ \E c \in MapCursors : IncrementThrows(c)

SpecThrow == Init /\ [][NextThrow]_vars

MapCallFrame ==
    maps' # maps =>
        LET m == Len(nodes')
            s == nodes'[m].mapOf
        IN  /\ m = Len(nodes) + 1
            /\ s \in Refs
            /\ nodes'[s] = nodes[s]
            /\ \A n \in Refs : nodes'[n] = nodes[n]
            /\ inp' = inp
            /\ nodes'[m].madeIn = "map"
            /\ nodes'[m].gen = MapF(s, TRUE, nodes'[m].mapFn)

SourceForcedWithRoot ==
    \A m \in MapRoots :
        LET s == nodes[m].mapOf IN
        /\ nodes'[s].byMap # nodes[s].byMap =>
               /\ nodes[m].which = 1 /\ nodes'[m].which = 0
               /\ nodes'[s].byMap = nodes[s].byMap + 1
        /\ (nodes[m].which = 1 /\ nodes'[m].which = 0) =>
               /\ nodes'[s].which = 0
               /\ nodes'[s].invoked = IF nodes[s].which = 1 THEN 1 ELSE nodes[s].invoked

C26_MapLeavesSource ==
    /\ [](\A m \in MapRoots :
              /\ nodes[m].which = 1 => nodes[nodes[m].mapOf].byMap = 0
              /\ nodes[m].which = 0 =>
                     /\ nodes[nodes[m].mapOf].which = 0
                     /\ nodes[nodes[m].mapOf].byMap = 1)
    /\ [][MapCallFrame /\ SourceForcedWithRoot]_vars

\* map has been called on a node whose tail is pending: the first node of
\* the result exists, the transform has run once, and the source slot still
\* holds its generator, which has not run.
C26_Witness ==
    \E m \in MapRoots :
        LET s == nodes[m].mapOf IN
        /\ nodes[m].which = 1
        /\ nodes[s].which = 1 /\ nodes[s].gen.kind # "none"
        /\ nodes[s].invoked = 0 /\ nodes[s].byMap = 0
        /\ fCalls = 1

(***************************************************************************)
(* C27: a live node of a mapped stream whose tail is pending holds, in the *)
(* closure of its generator, the source node its head was computed from,   *)
(* and that node is live; one whose tail is materialized holds only the    *)
(* next node of the mapped stream and does not keep its source node alive. *)
(* The step that forces the tail of a mapped node takes the reference of   *)
(* its closure away from the source node, and the new mapped node holds    *)
(* the next source node.  While the caller keeps nothing but a cursor over *)
(* the mapped stream, an advance reclaims the mapped node passed and its   *)
(* source node and does not raise the number of live source nodes; once    *)
(* the cursor stands at the pending end of both streams, one source node   *)
(* is live.                                                                *)
(***************************************************************************)
SourceLive == Live \ Mapped

ForcedMapReleases ==
    \A m \in Mapped \cap Live :
        (nodes[m].which = 1 /\ nodes'[m].which = 0) =>
            LET s == nodes[m].mapOf
                m2 == nodes'[m].ref
            IN  /\ <<"tail_", m>> \in Referents(s)
                /\ <<"tail_", m>> \notin Referents(s)'
                /\ uses'[s] = Cardinality(Referents(s)')
                /\ m2 # Nil =>
                       /\ m2 \in Live'
                       /\ nodes'[m2].mapOf = nodes'[s].ref
                       /\ Held(nodes'[m2]) = nodes'[s].ref
                       /\ uses'[nodes'[s].ref] >= 1

SoleMapAdvance(c) ==
    (Sole(c) /\ location_[c] \in Mapped /\ advances'[c] = advances[c] + 1) =>
        /\ uses'[location_[c]] = 0
        /\ uses'[nodes[location_[c]].mapOf] = 0
        /\ Cardinality(SourceLive') <= Cardinality(SourceLive)

C27_MapHoldsSource ==
    /\ [](/\ \A m \in Mapped \cap Live :
                LET s == nodes[m].mapOf IN
                /\ nodes[m].which = 1 =>
                       /\ Held(nodes[m]) = s
                       /\ s \in SourceLive
                /\ nodes[m].which = 0 =>
                       /\ Held(nodes[m]) \in Mapped \cup {Nil}
                       /\ s \notin ReachFrom(m)
                       /\ <<"tail_", m>> \notin Referents(s)
          /\ \A c \in MapCursors :
                (/\ Sole(c) /\ location_[c] \in Mapped
                 /\ nodes[location_[c]].which = 1
                 /\ nodes[nodes[location_[c]].mapOf].which = 1) =>
                    /\ SourceLive = {nodes[location_[c]].mapOf}
                    /\ Live = {location_[c], nodes[location_[c]].mapOf})
    /\ [][ForcedMapReleases /\ \A c \in MapCursors : SoleMapAdvance(c)]_vars

\* A cursor from the consuming begin, the only thing the caller keeps, has
\* passed two nodes of a mapped Fibonacci stream: the nodes passed and their
\* source nodes are reclaimed, and one mapped and one source node are live.
C27_Witness ==
    \E c \in MapCursors :
        /\ c \in consumed /\ Sole(c)
        /\ location_[c] \in Mapped
        /\ advances[c] >= 2
        /\ Cardinality(SourceLive) = 1
        /\ Cardinality({n \in Refs \ Mapped : uses[n] = 0}) >= 2
        /\ Cardinality({m \in Mapped : uses[m] = 0}) >= 2

(***************************************************************************)
(* Interleaved traversals.  The Fibonacci stream and a stream mapped from  *)
(* one of its nodes are traversed by the cursors in any order, each cursor *)
(* begun again at any node any number of times.                            *)
(***************************************************************************)
InitWeave == InitWith(MaxWeaveNodes)

NextWeave ==
    \/ First
    \/ \E n \in Refs, f \in Transforms : Map(n, f)
    \/ \E c \in Cursors, s \in Refs : Begin(c, s)
    \/ \E c \in Cursors : Increment(c)

SpecWeave == InitWeave /\ [][NextWeave]_vars

\* The place of node n in the source stream, counted from 1: its own if it
\* is a source node, that of the node it was made from if it is mapped.
Position(n) ==
    LET r == CHOOSE x \in FibRoots : TRUE
        s == IF n \in Mapped THEN nodes[n].mapOf ELSE n
    IN  IndexIn(ChainFrom(r), s)

\* The i-th element of the stream that starts at node o.
Element(o, i) ==
    LET e == Fib(Position(o) + i - 2) % Mod
    IN  IF o \in Mapped THEN Apply(nodes[o].mapFn, e) ELSE e

(***************************************************************************)
(* C28: however the traversals of a stream and of the stream mapped from   *)
(* it are interleaved, the generator of every source node has run at most  *)
(* once (exactly once if its slot is materialized, in the step that        *)
(* materialized it), the transform has run once for each node of the       *)
(* mapped stream and no source node has two mapped nodes, and what a       *)
(* cursor has read is determined by the place in the stream of the node it *)
(* was begun at and the number of its advances.                            *)
(***************************************************************************)
C28_Interleaving ==
    /\ [](/\ \A n \in Refs :
                /\ nodes[n].invoked <= 1
                /\ nodes[n].invoked = 1 <=> (nodes[n].born = 1 /\ nodes[n].which = 0)
                /\ Position(n) # 0
          /\ fCalls = Cardinality(Mapped)
          /\ \A m1, m2 \in Mapped : nodes[m1].mapOf = nodes[m2].mapOf => m1 = m2
          /\ \A s1, s2 \in Refs \ Mapped : Position(s1) = Position(s2) => s1 = s2
          /\ \A c \in Cursors :
                origin[c] # Nil =>
                    /\ Len(seen[c]) = advances[c]
                    /\ \A i \in 1 .. Len(seen[c]) : seen[c][i] = Element(origin[c], i)
          /\ \A c, d \in Cursors :
                (/\ origin[c] # Nil /\ origin[d] # Nil
                 /\ origin[c] \in Mapped <=> origin[d] \in Mapped
                 /\ Position(origin[c]) = Position(origin[d])) =>
                    \A i \in 1 .. Len(seen[c]) : i <= Len(seen[d]) => seen[c][i] = seen[d][i])
    /\ [][\A n \in Refs :
              /\ nodes'[n].invoked # nodes[n].invoked => (nodes[n].which = 1 /\ nodes'[n].which = 0)
              /\ nodes'[n].head_ = nodes[n].head_]_vars

\* One cursor has traversed the source and the other the mapped stream, the
\* source cursor was begun again after the mapped one had forced the source,
\* and both have read two elements.
C28_Witness ==
    \E c, d \in Cursors :
        /\ origin[c] \in FibRoots /\ origin[d] \in MapRoots
        /\ nodes[origin[d]].mapOf = origin[c]
        /\ nodes[origin[d]].mapFn = "dec"
        /\ Len(seen[c]) = 2 /\ Len(seen[d]) = 2
        /\ seen[c] # seen[d]
        /\ nodes[origin[c]].byMap = 1
        /\ fCalls = 3

====
